---- MODULE Spec2Model ----
(***************************************************************************)
(* Model of the Home Controller core (home_controller/core/backend.py):    *)
(* the module registry, its address handling and its persistence, with     *)
(* the /modules/add route of home_controller/server.py that sits in front  *)
(* of add_module, the device I/O engine (read_module, write_module,        *)
(* read_hat_status) over the real bus or the simulation table, and the     *)
(* pinmap contract validator (home_controller/core/pinmap_validate.py).    *)
(*                                                                         *)
(* Text is modelled as a sequence of one-character strings, so that        *)
(* strip(), lower(), int(s, 16) and the "0x%02x" formatting are computed   *)
(* the way the Python code computes them.                                  *)
(***************************************************************************)
EXTENDS Integers, Sequences, FiniteSets, TLC

VARIABLES
    now,        \* time.time(), in whole seconds
    cfg,        \* HomeControllerBackend.cfg (ControllerConfig)
    disk,       \* the file at _config_path (config.json)
    last,       \* the call in progress / just answered, with its result
    saving,     \* position of a save_config call inside its open/write/close
    reader,     \* whether every load of config.json by another reader worked
    normIn,     \* input of the pure-function harness (normalize_address)
    normOut,    \* its result
    dev,        \* _dev_mode, _dev_data and the file at _dev_file
    io,         \* the read/write call in progress / just answered, its result
    env,        \* what the backend runs on: smbus2, bus, ceiling documents
    hw,         \* one MCP23017 on the real bus and the write_module calls at it,
                \* bus transaction by bus transaction
    pm          \* the pinmap files of the module types and what validate()
                \* returned for them

vars == <<now, cfg, disk, last, saving, reader, normIn, normOut, dev, io, env, hw, pm>>

----------------------------------------------------------------------------
(* Bounds of the model *)

MaxModules == 2      \* registry entries per run
MaxVal == 300        \* integer values rendered as address text (harness)
MaxTime == 1         \* clock ticks per run
MaxSweep == 130      \* addresses 0..MaxSweep tried by the address sweep

----------------------------------------------------------------------------
(* Program constants (backend.py:42-53, server.py:41) *)

DEFAULT_I2C_BUS_NUM == 1
MCP23017_MIN == 32
MCP23017_MAX == 39
AIO_BASE == 48
AIO_MAX == 55
ADDR_7BIT_MAX == 127
SCAN_MIN == 3
SCAN_MAX == 119

VALID_TYPES ==
    { <<"d","i">>, <<"d","o">>, <<"a","i","o">>, <<"i","2","c">>,
      <<"r","s","4","8","5">>, <<"g","e","n","m","o","n">> }

----------------------------------------------------------------------------
(* Python str primitives *)

UpperLetters == <<"A","B","C","D","E","F","G","H","I","J","K","L","M",
                  "N","O","P","Q","R","S","T","U","V","W","X","Y","Z">>
LowerLetters == <<"a","b","c","d","e","f","g","h","i","j","k","l","m",
                  "n","o","p","q","r","s","t","u","v","w","x","y","z">>
HexDigits == <<"0","1","2","3","4","5","6","7","8","9","a","b","c","d","e","f">>

SetMin(S) == CHOOSE x \in S : \A y \in S : x <= y
SetMax(S) == CHOOSE x \in S : \A y \in S : x >= y

IsSpace(c) == c \in {" ", "\t", "\n"}

\* str.lower() on one character
LowerChar(c) ==
    IF \E i \in 1..26 : UpperLetters[i] = c
    THEN LowerLetters[CHOOSE i \in 1..26 : UpperLetters[i] = c]
    ELSE c

\* str.lower()
Lower(s) == [i \in 1..Len(s) |-> LowerChar(s[i])]

\* str.strip()
Strip(s) ==
    LET keep == {i \in 1..Len(s) : ~IsSpace(s[i])}
    IN  IF keep = {} THEN <<>> ELSE SubSeq(s, SetMin(keep), SetMax(keep))

\* str.startswith(p)
StartsWith(s, p) == Len(s) >= Len(p) /\ SubSeq(s, 1, Len(p)) = p

\* value of a digit character in the given base, -1 when it is no digit
DigitVal(c, base) ==
    LET lc == LowerChar(c)
        hit == {i \in 1..16 : HexDigits[i] = lc /\ i - 1 < base}
    IN  IF hit = {} THEN -1 ELSE (CHOOSE i \in hit : TRUE) - 1

\* the digits of a literal after sign and prefix: digits, with single
\* underscores allowed between digits (and, after a base prefix, in front)
RECURSIVE DigitsValue(_, _, _)
DigitsValue(d, base, acc) ==
    IF d = <<>> THEN acc
    ELSE IF Head(d) = "_" THEN DigitsValue(Tail(d), base, acc)
    ELSE DigitsValue(Tail(d), base, acc * base + DigitVal(Head(d), base))

DigitsOk(d, base, prefixed) ==
    /\ d # <<>>
    /\ \A i \in 1..Len(d) :
          \/ DigitVal(d[i], base) >= 0
          \/ /\ d[i] = "_"
             /\ i < Len(d)
             /\ DigitVal(d[i + 1], base) >= 0
             /\ IF i = 1 THEN prefixed ELSE DigitVal(d[i - 1], base) >= 0

\* int(s, base) for base 10 or 16: [ok, val]; ok = FALSE is ValueError
PyInt(s, base) ==
    LET t    == Strip(s)
        neg  == t # <<>> /\ Head(t) = "-"
        u    == IF t # <<>> /\ Head(t) \in {"+", "-"} THEN Tail(t) ELSE t
        pre  == base = 16 /\ StartsWith(Lower(u), <<"0","x">>)
        d    == IF pre THEN SubSeq(u, 3, Len(u)) ELSE u
    IN  IF DigitsOk(d, base, pre)
        THEN [ok |-> TRUE,
              val |-> IF neg THEN 0 - DigitsValue(d, base, 0)
                             ELSE DigitsValue(d, base, 0)]
        ELSE [ok |-> FALSE, val |-> 0]

\* str(n) for n >= 0
RECURSIVE DecOf(_)
DecOf(n) ==
    IF n < 10 THEN <<HexDigits[n + 1]>>
    ELSE DecOf(n \div 10) \o <<HexDigits[(n % 10) + 1]>>

\* the hexadecimal digits of a natural number, lower case, no padding
RECURSIVE HexOf(_)
HexOf(n) ==
    IF n < 16 THEN <<HexDigits[n + 1]>>
    ELSE HexOf(n \div 16) \o <<HexDigits[(n % 16) + 1]>>

\* f"0x{val:02d}": decimal digits where hexadecimal ones are meant
FormatHex_decimal(val) ==
    LET h == DecOf(val)
    IN  <<"0","x">> \o (IF Len(h) < 2 THEN <<"0">> \o h ELSE h)

\* f"0x{val:02x}" for val >= 0
FormatHex(val) ==
    LET h == HexOf(val)
    IN  <<"0","x">> \o (IF Len(h) < 2 THEN <<"0">> \o h ELSE h)

----------------------------------------------------------------------------
(* Data model *)

\* ModuleEntry(id, type, address_hex, name)
ModuleEntry(id, type, address_hex, name) ==
    [id |-> id, type |-> type, address_hex |-> address_hex, name |-> name]

\* ControllerConfig() with its defaults
ControllerConfig ==
    [controller_name |-> "Home Controller", notes |-> "",
     i2c_bus_num |-> DEFAULT_I2C_BUS_NUM, modules |-> <<>>]

\* ModuleEntry.address_int(): int(self.address_hex, 16)
address_int(m) == PyInt(m.address_hex, 16)

----------------------------------------------------------------------------
(* Persistence: config.json as the sequence of items json.dump writes,    *)
(* keys sorted                                                             *)

Item(k, v) == [k |-> k, v |-> v]

\* the items of one key of the document (nothing when the key is absent)
Part(raw, k) ==
    IF k \notin DOMAIN raw THEN <<>>
    ELSE IF k = "modules"
         THEN <<Item("[", "")>>
              \o [i \in 1..Len(raw[k]) |-> Item("module", raw[k][i])]
              \o <<Item("]", "")>>
         ELSE <<Item(k, raw[k])>>

\* json.dump(raw, f, indent=2, sort_keys=True)
Dump(raw) ==
    <<Item("{", "")>>
    \o Part(raw, "controller_name") \o Part(raw, "i2c_bus_num")
    \o Part(raw, "modules") \o Part(raw, "notes") \o Part(raw, "saved_at")
    \o <<Item("}", "")>>

\* json.load: [ok, raw]; ok = FALSE is a JSONDecodeError (empty or cut text)
JsonLoad(text) ==
    LET n == Len(text)
        opens == {i \in 1..n : text[i].k = "["}
        closes == {i \in 1..n : text[i].k = "]"}
        scal == {i \in 2..(n - 1) : text[i].k \notin {"[", "]", "module"}}
        keys == {text[i].k : i \in scal}
                \cup (IF opens # {} THEN {"modules"} ELSE {})
    IN  IF /\ n >= 2
           /\ text[1].k = "{" /\ text[n].k = "}"
           /\ Cardinality(opens) = Cardinality(closes)
        THEN [ok |-> TRUE,
              raw |-> [k \in keys |->
                         IF k = "modules"
                         THEN [j \in 1..(SetMin(closes) - SetMin(opens) - 1) |->
                                  text[SetMin(opens) + j].v]
                         ELSE text[CHOOSE i \in scal : text[i].k = k].v]]
        ELSE [ok |-> FALSE, raw |-> <<>>]

\* dict.get(k, default)
Get(raw, k, default) == IF k \in DOMAIN raw THEN raw[k] ELSE default

\* the document save_config builds from self.cfg
RawOf(c, t) ==
    [controller_name |-> c.controller_name, notes |-> c.notes,
     i2c_bus_num |-> c.i2c_bus_num, modules |-> c.modules, saved_at |-> t]

NoFile == [exists |-> FALSE, text |-> <<>>]

\* save_config as one step: the file holds the whole new document
save_config(c, t) == [exists |-> TRUE, text |-> Dump(RawOf(c, t))]

\* load_config: [ok, cfg]; ok = FALSE is the exception json.load raises
load_config(d) ==
    IF ~d.exists THEN [ok |-> TRUE, cfg |-> ControllerConfig]
    ELSE LET j == JsonLoad(d.text)
             ms == Get(j.raw, "modules", <<>>)
         IN  IF ~j.ok THEN [ok |-> FALSE, cfg |-> ControllerConfig]
             ELSE [ok |-> TRUE,
                   cfg |-> [controller_name |->
                               Get(j.raw, "controller_name", "Home Controller"),
                            notes |-> Get(j.raw, "notes", ""),
                            i2c_bus_num |->
                               Get(j.raw, "i2c_bus_num", DEFAULT_I2C_BUS_NUM),
                            modules |->
                               [i \in 1..Len(ms) |->
                                  ModuleEntry(ms[i].id, Lower(ms[i].type),
                                              Lower(ms[i].address_hex),
                                              ms[i].name)]]]

\* __init__ without the line that forces the bus number
backend_init_noforce(d) == load_config(d)

\* __init__: self.cfg = self.load_config(), then the bus number is forced
backend_init(d) ==
    [load_config(d) EXCEPT !.cfg.i2c_bus_num = DEFAULT_I2C_BUS_NUM]

\* storage.load_config: [ok, raw]; a missing file gives the two defaults
load_raw(d) ==
    IF ~d.exists
    THEN [ok |-> TRUE, raw |-> [controller_name |-> "Home Controller", notes |-> ""]]
    ELSE JsonLoad(d.text)

\* app.config_post: the loaded document with its notes replaced
config_post(raw, notes) ==
    [k \in DOMAIN raw \cup {"controller_name", "notes"} |->
        IF k = "notes" THEN notes
        ELSE IF k = "controller_name" THEN Get(raw, k, "Home Controller")
        ELSE raw[k]]

----------------------------------------------------------------------------
(* Identity and address helpers *)

Fail(e) == [ok |-> FALSE, err |-> e, hex |-> <<>>, val |-> 0]

\* normalize_address reading a token without 0x as decimal
normalize_address_decimal(addr) ==
    LET s == Lower(Strip(addr))
    IN  IF s = <<>> THEN Fail("AddressInvalid")
        ELSE LET p == IF StartsWith(s, <<"0","x">>) THEN PyInt(s, 16)
                      ELSE PyInt(s, 10)
             IN  IF ~p.ok THEN Fail("AddressInvalid")
                 ELSE IF p.val < 0 \/ p.val > ADDR_7BIT_MAX
                      THEN Fail("AddressInvalid")
                      ELSE [ok |-> TRUE, err |-> "", hex |-> FormatHex(p.val),
                            val |-> p.val]

\* normalize_address: [ok, err, hex, val]; ok = FALSE is ValueError
normalize_address(addr) ==
    LET s == Lower(Strip(addr))
    IN  IF s = <<>> THEN Fail("AddressInvalid")
        ELSE LET p == PyInt(s, 16)
             IN  IF ~p.ok THEN Fail("AddressInvalid")
                 ELSE IF p.val < 0 \/ p.val > ADDR_7BIT_MAX
                      THEN Fail("AddressInvalid")
                      ELSE [ok |-> TRUE, err |-> "", hex |-> FormatHex(p.val),
                            val |-> p.val]

\* _module_id
module_id(address_hex) ==
    <<"i","2","c">> \o DecOf(DEFAULT_I2C_BUS_NUM) \o <<"-">> \o Lower(address_hex)

\* _find_module_index: 0-based index of the first match, -1 when none
find_module_index(c, mid) ==
    LET hit == {i \in 1..Len(c.modules) : Lower(c.modules[i].id) = Lower(mid)}
    IN  IF hit = {} THEN -1 ELSE SetMin(hit) - 1

\* server._parse_i2c_address: [ok, val]; ok = FALSE is ValueError
parse_i2c_address(addr_str) ==
    LET s == Lower(Strip(addr_str))
        allhex == \A i \in 1..Len(s) : DigitVal(s[i], 16) >= 0
        letter == \E i \in 1..Len(s) : DigitVal(s[i], 16) >= 10
        p == IF StartsWith(s, <<"0","x">>) THEN PyInt(s, 16)
             ELSE IF allhex /\ letter THEN PyInt(s, 16)
             ELSE IF allhex /\ Len(s) <= 2 THEN PyInt(s, 16)
             ELSE PyInt(s, 10)
    IN  IF s = <<>> THEN [ok |-> FALSE, val |-> 0]
        ELSE IF ~p.ok THEN [ok |-> FALSE, val |-> 0]
        ELSE IF p.val < SCAN_MIN \/ p.val > SCAN_MAX THEN [ok |-> FALSE, val |-> 0]
        ELSE [ok |-> TRUE, val |-> p.val]

----------------------------------------------------------------------------
(* Registry operations: [ok, err, cfg, save]; ok = FALSE is the ValueError  *)
(* raised before anything is changed; save says that the handler went on   *)
(* to call self.save_config()                                              *)

Raise(c, e) == [ok |-> FALSE, err |-> e, cfg |-> c, save |-> FALSE]
Done(c) == [ok |-> TRUE, err |-> "", cfg |-> c, save |-> TRUE]

\* add_module looking the new module up by its address instead of its id
add_module_wrongkey(c, mtype, address, name) ==
    LET t == Lower(Strip(mtype))
        address_hex == Strip(address)
        mid == module_id(address_hex)
    IN  IF t \notin VALID_TYPES THEN Raise(c, "InvalidType")
        ELSE IF find_module_index(c, address_hex) >= 0 THEN Raise(c, "ModuleExists")
        ELSE Done([c EXCEPT !.modules =
                     Append(@, ModuleEntry(mid, t, address_hex, Strip(name)))])

\* add_module inserting the new entry at the head of the list
add_module_prepend(c, mtype, address, name) ==
    LET t == Lower(Strip(mtype))
        address_hex == Strip(address)
        mid == module_id(address_hex)
    IN  IF t \notin VALID_TYPES THEN Raise(c, "InvalidType")
        ELSE IF find_module_index(c, mid) >= 0 THEN Raise(c, "ModuleExists")
        ELSE Done([c EXCEPT !.modules =
                     <<ModuleEntry(mid, t, address_hex, Strip(name))>> \o @])

add_module(c, mtype, address, name) ==
    LET t == Lower(Strip(mtype))
        address_hex == Strip(address)
        mid == module_id(address_hex)
    IN  IF t \notin VALID_TYPES THEN Raise(c, "InvalidType")
        ELSE IF find_module_index(c, mid) >= 0 THEN Raise(c, "ModuleExists")
        ELSE Done([c EXCEPT !.modules =
                     Append(@, ModuleEntry(mid, t, address_hex, Strip(name)))])

\* remove_module popping the head of the list instead of the match
remove_module_head(c, module_id_arg) ==
    LET mid == Strip(module_id_arg)
        idx == find_module_index(c, mid)
    IN  IF idx < 0 THEN Raise(c, "ModuleNotFound")
        ELSE Done([c EXCEPT !.modules = Tail(@)])

remove_module(c, module_id_arg) ==
    LET mid == Strip(module_id_arg)
        idx == find_module_index(c, mid)
    IN  IF idx < 0 THEN Raise(c, "ModuleNotFound")
        ELSE Done([c EXCEPT !.modules =
                     SubSeq(@, 1, idx) \o SubSeq(@, idx + 2, Len(@))])

\* rename_module without its final self.save_config()
rename_module_nosave(c, module_id_arg, new_name) ==
    LET mid == Strip(module_id_arg)
        idx == find_module_index(c, mid)
    IN  IF idx < 0 THEN Raise(c, "ModuleNotFound")
        ELSE [Done([c EXCEPT !.modules[idx + 1].name = Strip(new_name)])
                 EXCEPT !.save = FALSE]

rename_module(c, module_id_arg, new_name) ==
    LET mid == Strip(module_id_arg)
        idx == find_module_index(c, mid)
    IN  IF idx < 0 THEN Raise(c, "ModuleNotFound")
        ELSE Done([c EXCEPT !.modules[idx + 1].name = Strip(new_name)])

\* change_module_address with the upper AIO limit excluded (< for <=)
change_module_address_offbyone(c, module_id_arg, new_address) ==
    LET mid == Strip(module_id_arg)
        idx == find_module_index(c, mid)
    IN  IF idx < 0 THEN Raise(c, "ModuleNotFound")
        ELSE LET m == c.modules[idx + 1]
                 a == normalize_address(new_address)
                 new_mid == module_id(a.hex)
                 existing == find_module_index(c, new_mid)
             IN  IF ~a.ok THEN Raise(c, a.err)
                 ELSE IF /\ m.type \in {<<"d","i">>, <<"d","o">>}
                         /\ ~(MCP23017_MIN <= a.val /\ a.val <= MCP23017_MAX)
                      THEN Raise(c, "Guardrail")
                 ELSE IF /\ m.type = <<"a","i","o">>
                         /\ ~(AIO_BASE <= a.val /\ a.val < AIO_MAX)
                      THEN Raise(c, "Guardrail")
                 ELSE IF existing >= 0 /\ existing # idx
                      THEN Raise(c, "AddressCollision")
                 ELSE Done([c EXCEPT !.modules[idx + 1].address_hex = a.hex,
                                     !.modules[idx + 1].id = new_mid])

\* change_module_address without the collision check
change_module_address_nocollide(c, module_id_arg, new_address) ==
    LET mid == Strip(module_id_arg)
        idx == find_module_index(c, mid)
    IN  IF idx < 0 THEN Raise(c, "ModuleNotFound")
        ELSE LET m == c.modules[idx + 1]
                 a == normalize_address(new_address)
                 new_mid == module_id(a.hex)
             IN  IF ~a.ok THEN Raise(c, a.err)
                 ELSE IF /\ m.type \in {<<"d","i">>, <<"d","o">>}
                         /\ ~(MCP23017_MIN <= a.val /\ a.val <= MCP23017_MAX)
                      THEN Raise(c, "Guardrail")
                 ELSE IF /\ m.type = <<"a","i","o">>
                         /\ ~(AIO_BASE <= a.val /\ a.val <= AIO_MAX)
                      THEN Raise(c, "Guardrail")
                 ELSE Done([c EXCEPT !.modules[idx + 1].address_hex = a.hex,
                                     !.modules[idx + 1].id = new_mid])

change_module_address(c, module_id_arg, new_address) ==
    LET mid == Strip(module_id_arg)
        idx == find_module_index(c, mid)
    IN  IF idx < 0 THEN Raise(c, "ModuleNotFound")
        ELSE LET m == c.modules[idx + 1]
                 a == normalize_address(new_address)
                 new_mid == module_id(a.hex)
                 existing == find_module_index(c, new_mid)
             IN  IF ~a.ok THEN Raise(c, a.err)
                 ELSE IF /\ m.type \in {<<"d","i">>, <<"d","o">>}
                         /\ ~(MCP23017_MIN <= a.val /\ a.val <= MCP23017_MAX)
                      THEN Raise(c, "Guardrail")
                 ELSE IF /\ m.type = <<"a","i","o">>
                         /\ ~(AIO_BASE <= a.val /\ a.val <= AIO_MAX)
                      THEN Raise(c, "Guardrail")
                 ELSE IF existing >= 0 /\ existing # idx
                      THEN Raise(c, "AddressCollision")
                 ELSE Done([c EXCEPT !.modules[idx + 1].address_hex = a.hex,
                                     !.modules[idx + 1].id = new_mid])

\* server.modules_add: parse, bus-presence check, then add_module with the
\* address written as 0xNN.  scan is what the bus scan found.
modules_add(c, mtype, address, name, scan) ==
    LET p == parse_i2c_address(Strip(address))
    IN  IF ~p.ok THEN Raise(c, "AddressInvalid")
        ELSE IF scan = "error" THEN Raise(c, "ScanFailed")
        ELSE IF scan = "absent" THEN Raise(c, "NotOnBus")
        ELSE add_module(c, mtype, FormatHex(p.val), name)

----------------------------------------------------------------------------
(* Device I/O: values, bytes and the simulation table                      *)
(*                                                                         *)
(* A JSON value of the simulation document is [t, n]: t = "num" with the   *)
(* number n, or t = "bad" for a value int() and float() reject.  Voltages  *)
(* are counted in tenths of a volt (5.1 V is 51).  A token of a textual    *)
(* response is a value too: "num", "bad" (not a number) or "blank"; "nan"  *)
(* is float("nan").                                                        *)

Num(n) == [t |-> "num", n |-> n]
Bad == [t |-> "bad", n |-> 0]
Blank == [t |-> "blank", n |-> 0]
NaN == [t |-> "nan", n |-> 0]

\* 2 ** i
Pow2(i) == IF i = 0 THEN 1 ELSE IF i = 1 THEN 2 ELSE IF i = 2 THEN 4
           ELSE IF i = 3 THEN 8 ELSE IF i = 4 THEN 16 ELSE IF i = 5 THEN 32
           ELSE IF i = 6 THEN 64 ELSE 128

\* (x >> i) & 1
Bit(x, i) == (x \div Pow2(i)) % 2

\* (cur | (1 << bit)) & 0xFF  and  (cur & ~(1 << bit)) & 0xFF
SetBit(cur, bit) == (IF Bit(cur, bit) = 1 THEN cur ELSE cur + Pow2(bit)) % 256
ClearBit(cur, bit) == (IF Bit(cur, bit) = 1 THEN cur - Pow2(bit) ELSE cur) % 256

\* the channels dict of a digital module: "1".."8" from a, "9".."16" from b
ChannelsOf(a, b) ==
    [k \in 1..16 |-> IF k <= 8 THEN Bit(a, k - 1) ELSE Bit(b, k - 9)]

\* int(value) of a number given in tenths: truncation toward zero
Trunc(tenths) == IF tenths >= 0 THEN tenths \div 10 ELSE 0 - ((0 - tenths) \div 10)

\* dict.get / dict[k] = v on _dev_data, a dict in insertion order
HasKey(d, k) == \E i \in 1..Len(d) : d[i].k = k
DictGet(d, k) == d[CHOOSE i \in 1..Len(d) : d[i].k = k].v
DictSet(d, k, v) ==
    IF HasKey(d, k)
    THEN [i \in 1..Len(d) |-> IF d[i].k = k THEN [k |-> k, v |-> v] ELSE d[i]]
    ELSE Append(d, [k |-> k, v |-> v])

\* int(dev.get(key, 0)): [ok, val]
DevInt(rec, key) ==
    IF key \notin DOMAIN rec THEN [ok |-> TRUE, val |-> 0]
    ELSE IF rec[key].t = "num" THEN [ok |-> TRUE, val |-> rec[key].n]
    ELSE [ok |-> FALSE, val |-> 0]

\* [p.strip() for p in s.split(",") if p.strip()], each through float() with
\* float("nan") for a token that does not parse
ParseCsv(tokens) ==
    LET kept == SelectSeq(tokens, LAMBDA p : p.t # "blank")
    IN  [i \in 1..Len(kept) |-> IF kept[i].t = "num" THEN kept[i] ELSE NaN]

\* the first min(len(values), 8) values
First8(values) == SubSeq(values, 1, IF Len(values) < 8 THEN Len(values) ELSE 8)

NoDev == [mode |-> FALSE, data |-> <<>>, file |-> <<>>]
\* env: smbus says that smbus2 could be imported; regs are the port
\* registers of the MCP23017 devices on the bus, by address; ceil are the
\* AIO_<module id>.json documents; log is what aio_alerts.log holds (an
\* alert has no timestamp here, so equal alerts are one line)
NoEnv == [smbus |-> FALSE, regs |-> <<>>, ceil |-> <<>>, log |-> {}]

\* hist remembers, for the properties, the last simulated read of a
\* digital-output module and the write that followed it
NoHw == [olat |-> <<0, 0>>, iodir |-> <<0, 0>>, faults |-> 0, th |-> <<>>]

NoPm == [files |-> <<>>, ran |-> FALSE, raised |-> FALSE, ok |-> FALSE,
         errors |-> <<>>, loaded |-> <<>>]

NoHist == [stage |-> "none", mid |-> <<>>, ports |-> <<0, 0>>,
           channel |-> 0, value |-> 0]

IoIdle == [op |-> "none", mid |-> <<>>, channel |-> 0, value |-> 0,
           ok |-> TRUE, raised |-> FALSE, err |-> "",
           ports |-> <<0, 0>>, channels |-> <<>>, volts |-> <<>>,
           alerts |-> <<>>, has_alerts |-> FALSE, bus |-> FALSE,
           i2c_present |-> FALSE, hist |-> NoHist]

----------------------------------------------------------------------------
(* Device I/O engine: read_module                                          *)
(*                                                                         *)
(* A result is [ok, raised, err, ...]: raised = TRUE is an exception that  *)
(* leaves the method; bus = TRUE says that a transaction on the real bus   *)
(* was attempted; has_alerts says that the result has an "alerts" key.     *)
(* hwin is what the real bus does during the call: fail ("none", "early"   *)
(* before anything was written, "late" after the latch was written) and    *)
(* the tokens of the text an analog device answers.                        *)

IoResult == [ok |-> TRUE, raised |-> FALSE, err |-> "", ports |-> <<0, 0>>,
             channels |-> <<>>, volts |-> <<>>, alerts |-> <<>>,
             has_alerts |-> FALSE, bus |-> FALSE, i2c_present |-> FALSE]

IoRaise(e) == [IoResult EXCEPT !.ok = FALSE, !.raised = TRUE, !.err = e]
IoFail(e, onbus) == [IoResult EXCEPT !.ok = FALSE, !.err = e, !.bus = onbus]
IoDigital(a, b, onbus) ==
    [IoResult EXCEPT !.ports = <<a, b>>, !.channels = ChannelsOf(a, b), !.bus = onbus]

\* the record a structural fallback picks: the first one, in dict order,
\* that looks like the module's type; 0 when there is none
FallbackIndex(data, type) ==
    LET fits == {i \in 1..Len(data) :
                   \/ /\ type = <<"a","i","o">>
                      /\ ("raw_response" \in DOMAIN data[i].v
                            \/ "channels" \in DOMAIN data[i].v)
                   \/ /\ type \in {<<"d","i">>, <<"d","o">>}
                      /\ ("gpio_a" \in DOMAIN data[i].v
                            \/ "gpio_b" \in DOMAIN data[i].v)}
    IN  IF fits = {} THEN 0 ELSE SetMin(fits)

\* dev as read_module finds it: [found, rec]
DevFor(dv, m) ==
    LET addr_key == Lower(m.address_hex)
        f == FallbackIndex(dv.data, m.type)
    IN  IF ~dv.mode THEN [found |-> FALSE, rec |-> <<>>]
        ELSE IF HasKey(dv.data, addr_key)
             THEN [found |-> TRUE, rec |-> DictGet(dv.data, addr_key)]
        ELSE IF f > 0 THEN [found |-> TRUE, rec |-> dv.data[f].v]
        ELSE [found |-> FALSE, rec |-> <<>>]

\* the MCP23017 port registers at an address of the real bus
RegsAt(e, addr) == IF HasKey(e.regs, addr) THEN DictGet(e.regs, addr) ELSE <<0, 0>>

\* aio_max_voltage.load_aio_max_voltage(m.id)["in"]
CeilingsOf(e, mid) == IF HasKey(e.ceil, mid) THEN DictGet(e.ceil, mid) ELSE <<>>

\* the over-voltage alerts of the values read from module m
AlertsFor(e, m, values) ==
    LET max_cfg == CeilingsOf(e, m.id)
        max_ch == Len(First8(values))
        over(ch) == /\ ch \in DOMAIN max_cfg
                    /\ max_cfg[ch].t = "num"
                    /\ values[ch].t = "num"
                    /\ values[ch].n > max_cfg[ch].n
        all == [ch \in 1..max_ch |->
                  [module |-> m.id, address |-> m.address_hex, channel |-> ch,
                   max_voltage |-> IF over(ch) THEN max_cfg[ch].n ELSE 0,
                   measured_voltage |-> values[ch]]]
    IN  SelectSeq(all, LAMBDA al : over(al.channel))

\* the simulated branch of read_module for a record that was found
read_simulated(m, rec) ==
    IF m.type \in {<<"d","i">>, <<"d","o">>}
    THEN LET a == DevInt(rec, "gpio_a")
             b == DevInt(rec, "gpio_b")
         IN  IF ~a.ok \/ ~b.ok THEN IoRaise("ValueError")
             ELSE IoDigital(a.val, b.val, FALSE)
    ELSE LET fromText == "raw_response" \in DOMAIN rec
             vals == IF "channels" \in DOMAIN rec THEN rec["channels"] ELSE <<>>
             values == IF fromText THEN ParseCsv(rec["raw_response"]) ELSE vals
         IN  IF ~fromText /\ \E i \in 1..Len(vals) : vals[i].t # "num"
             THEN IoRaise("ValueError")
             ELSE [IoResult EXCEPT !.volts = First8(values)]

\* the real-bus branch of read_module
read_hardware(e, m, hwin) ==
    IF ~e.smbus THEN IoFail("smbus2 not installed", FALSE)
    ELSE IF m.type \in {<<"d","i">>, <<"d","o">>}
    THEN IF hwin.fail # "none" \/ ~address_int(m).ok
         THEN IoFail("I2C read error", TRUE)
         ELSE IoDigital(RegsAt(e, address_int(m).val)[1],
                        RegsAt(e, address_int(m).val)[2], TRUE)
    ELSE IF m.type = <<"a","i","o">>
    THEN LET values == ParseCsv(hwin.tokens)
         IN  IF hwin.fail # "none" \/ ~address_int(m).ok
             THEN IoFail("AIO I2C read error", TRUE)
             ELSE IF \/ Len(hwin.tokens) = 0
                     \/ Len(hwin.tokens) = 1 /\ hwin.tokens[1].t = "blank"
             THEN IoFail("empty response from AIO module", TRUE)
             ELSE [IoResult EXCEPT !.volts = First8(values),
                                   !.alerts = AlertsFor(e, m, values),
                                   !.has_alerts = TRUE, !.bus = TRUE]
    ELSE IoFail("Unsupported module type", FALSE)

\* read_module from "m = self.cfg.modules[idx]" on; d is what DevFor found
read_entry(e, m, d, hwin) ==
    IF d.found /\ m.type \in {<<"d","i">>, <<"d","o">>, <<"a","i","o">>}
    THEN read_simulated(m, d.rec)
    ELSE read_hardware(e, m, hwin)

\* read_module once idx = self._find_module_index(module_id) is known
read_at(c, dv, e, idx, hwin) ==
    IF idx < 0 THEN IoRaise("ModuleNotFound")
    ELSE read_entry(e, c.modules[idx + 1], DevFor(dv, c.modules[idx + 1]), hwin)

read_module(c, dv, e, module_id_arg, hwin) ==
    read_at(c, dv, e, find_module_index(c, module_id_arg), hwin)

----------------------------------------------------------------------------
(* Device I/O engine: read_hat_status                                      *)
(*                                                                         *)
(* The status MCP23017 of the hat sits on bus 0; the model keeps no        *)
(* registers for that bus, a real read answers the ports 0/0.  hwin.fail   *)
(* "early" is a failed read of the status ports, "late" a failed probe of  *)
(* the optional board at HC_HAT_I2C_ADDR.                                  *)

\* os.getenv("HC_HAT_I2C_ADDR", "0x21"), the variable not set
HAT_I2C_ADDR == 33

read_hat_status(dv, e, bus_num, address, hwin) ==
    LET addr_key == Lower(FormatHex(address))
        i2c_key == Lower(FormatHex(HAT_I2C_ADDR))
    IN  IF dv.mode /\ HasKey(dv.data, addr_key)
        THEN LET rec == DictGet(dv.data, addr_key)
                 a == DevInt(rec, "gpio_a")
                 b == DevInt(rec, "gpio_b")
             IN  IF ~a.ok \/ ~b.ok THEN IoRaise("ValueError")
                 ELSE [IoDigital(a.val, b.val, FALSE)
                          EXCEPT !.i2c_present = HasKey(dv.data, i2c_key)]
        ELSE IF ~e.smbus THEN IoFail("smbus2 not installed", FALSE)
        ELSE IF hwin.fail = "early" THEN IoFail("hat I2C read error", TRUE)
        ELSE [IoDigital(0, 0, TRUE) EXCEPT !.i2c_present = (hwin.fail = "none")]

----------------------------------------------------------------------------
(* Device I/O engine: write_module                                         *)
(*                                                                         *)
(* The value is a number in tenths (a JSON number may be 0.5); a result    *)
(* carries, besides the answer, the simulation table and the bus registers *)
(* the call leaves behind, and saved = TRUE when _save_dev_data ran.       *)

WriteResult(r, dv, e) ==
    [r |-> r, data |-> dv.data, regs |-> e.regs, saved |-> FALSE]

\* json.dump(self._dev_data, sort_keys=True): the records by ascending key.
\* Keys are lower-case 0xNN texts, whose order is that of their values.
KeyBefore(k1, k2) == PyInt(k1, 16).val < PyInt(k2, 16).val
SortedByKey(d) ==
    [i \in 1..Len(d) |->
        d[CHOOSE j \in 1..Len(d) :
             Cardinality({h \in 1..Len(d) : KeyBefore(d[h].k, d[j].k)}) = i - 1]]

\* write_do_simulated with "self._dev_data = {addrk: dev_out}"
write_do_simulated_clobber(dv, e, m, port, bit, v) ==
    LET addrk == Lower(m.address_hex)
        new == IF v = 1 THEN SetBit(0, bit) ELSE 0
        a == IF port = "a" THEN new ELSE 0
        b == IF port = "a" THEN 0 ELSE new
    IN  [r |-> IoDigital(a, b, FALSE),
         data |-> << [k |-> addrk, v |-> [gpio_a |-> Num(a), gpio_b |-> Num(b)]] >>,
         regs |-> e.regs, saved |-> TRUE]

\* the simulated branch of a digital-output write
write_do_simulated(dv, e, m, port, bit, v) ==
    LET addrk == Lower(m.address_hex)
        rec == IF HasKey(dv.data, addrk) THEN DictGet(dv.data, addrk) ELSE <<>>
        ga == DevInt(rec, "gpio_a")
        gb == DevInt(rec, "gpio_b")
        a0 == IF ga.ok /\ gb.ok THEN ga.val ELSE 0
        b0 == IF ga.ok /\ gb.ok THEN gb.val ELSE 0
        cur == IF port = "a" THEN a0 ELSE b0
        new == IF v = 1 THEN SetBit(cur, bit) ELSE ClearBit(cur, bit)
        a == IF port = "a" THEN new ELSE a0
        b == IF port = "a" THEN b0 ELSE new
        dev_out == [gpio_a |-> Num(a), gpio_b |-> Num(b)]
    IN  [r |-> IoDigital(a, b, FALSE),
         data |-> DictSet(dv.data, addrk, dev_out),
         regs |-> e.regs, saved |-> TRUE]

\* the real-bus branch of a digital-output write
write_do_hardware(dv, e, m, port, bit, v, hwin) ==
    LET addr == address_int(m).val
        old == RegsAt(e, addr)
        cur == IF port = "a" THEN old[1] ELSE old[2]
        new == IF v = 1 THEN SetBit(cur, bit) ELSE ClearBit(cur, bit)
        now_regs == IF port = "a" THEN <<new, old[2]>> ELSE <<old[1], new>>
        written == DictSet(e.regs, addr, now_regs)
    IN  IF ~e.smbus
        THEN WriteResult(IoFail("smbus2 not installed", FALSE), dv, e)
        ELSE IF hwin.fail = "early" \/ ~address_int(m).ok
        THEN WriteResult(IoFail("I2C write error", TRUE), dv, e)
        ELSE IF hwin.fail = "late"
        THEN [r |-> IoFail("I2C write error", TRUE), data |-> dv.data,
              regs |-> written, saved |-> FALSE]
        ELSE [r |-> IoDigital(now_regs[1], now_regs[2], TRUE), data |-> dv.data,
              regs |-> written, saved |-> FALSE]

\* chans after "for i, v in enumerate(existing[:8]): chans[i] = float(v)"
\* inside its try: filled up to the first value float() rejects
ExistingChans(rec) ==
    LET existing == IF "channels" \in DOMAIN rec THEN First8(rec["channels"]) ELSE <<>>
        bad == {i \in 1..Len(existing) : existing[i].t # "num"}
        upto == IF bad = {} THEN Len(existing) ELSE SetMin(bad) - 1
    IN  [i \in 1..8 |-> IF i <= upto THEN existing[i] ELSE Num(0)]

\* the simulated branch of an analog write
write_aio_simulated(dv, e, m, ch, voltage) ==
    LET addrk == Lower(m.address_hex)
        rec == IF HasKey(dv.data, addrk) THEN DictGet(dv.data, addrk) ELSE <<>>
        chans == [ExistingChans(rec) EXCEPT ![ch] = Num(voltage)]
        dev_out == [channels |-> chans, raw_response |-> chans]
    IN  [r |-> [IoResult EXCEPT !.volts = chans],
         data |-> DictSet(dv.data, addrk, dev_out),
         regs |-> e.regs, saved |-> TRUE]

\* write_module from "m = self.cfg.modules[idx]" on
write_entry(dv, e, m, channel, value, hwin) ==
    LET port == IF channel <= 8 THEN "a" ELSE "b"
        bit == IF channel <= 8 THEN channel - 1 ELSE channel - 9
    IN  IF m.type = <<"d","o">>
        THEN IF ~(1 <= channel /\ channel <= 16)
             THEN WriteResult(IoFail("channel must be 1..16", FALSE), dv, e)
             ELSE IF Trunc(value) \notin {0, 1}
             THEN WriteResult(IoFail("value must be 0 or 1", FALSE), dv, e)
             ELSE IF dv.mode
             THEN write_do_simulated(dv, e, m, port, bit, Trunc(value))
             ELSE write_do_hardware(dv, e, m, port, bit, Trunc(value), hwin)
        ELSE IF m.type = <<"a","i","o">>
        THEN IF ~(1 <= channel /\ channel <= 8)
             THEN WriteResult(IoFail("channel must be 1..8 for AIO", FALSE), dv, e)
             ELSE IF dv.mode
             THEN write_aio_simulated(dv, e, m, channel, value)
             ELSE WriteResult([IoResult EXCEPT !.volts = [i \in 1..8 |-> Num(value)]],
                              dv, e)
        ELSE WriteResult(IoFail("write not supported for this module type", FALSE),
                         dv, e)

\* write_module once idx = self._find_module_index(module_id) is known
write_at(c, dv, e, idx, channel, value, hwin) ==
    IF idx < 0 THEN WriteResult(IoRaise("ModuleNotFound"), dv, e)
    ELSE write_entry(dv, e, c.modules[idx + 1], channel, value, hwin)

write_module(c, dv, e, module_id_arg, channel, value, hwin) ==
    write_at(c, dv, e, find_module_index(c, module_id_arg), channel, value, hwin)

----------------------------------------------------------------------------
(* Inputs the callers pass *)

TypeInputs ==
    { <<" ","D","O">>, <<"d","i">>, <<"a","i","o">>, <<"i","2","c">>, <<"x","x">> }

AddrInputs ==
    { <<"0","x","2","1">>,          \* canonical, inside the DI/DO range
      <<"2","1">>,                  \* the same address, bare
      <<" ","0","X","3","0">>,      \* upper case, padded, inside the AIO range
      <<"0","x","3","0">>,
      <<"0","x","3","1">>,
      <<"0","x","0","1">>,          \* 7-bit, below 0x03
      <<"8","0">> }                 \* beyond 7 bits

AddNames == { <<"a"," ">> }
RenameNames == { <<" ","b">> }

UnknownId == <<"i","2","c","1","-","0","x","7","7">>

\* ids a caller may name: those listed by list_modules, one of them typed
\* in upper case with padding, and one that was never added
IdInputs ==
    {cfg.modules[i].id : i \in 1..Len(cfg.modules)}
    \cup {<<" ","I","2","C","1","-","0","X","2","1">>, UnknownId}

ScanOutcomes == {"skip", "present", "absent", "error"}

----------------------------------------------------------------------------
(* State machine: one call at a time, each handler one step *)

Idle == [op |-> "none", mtype |-> <<>>, address |-> <<>>, name |-> <<>>,
         mid |-> <<>>, ok |-> TRUE, err |-> ""]

Call(op, mtype, address, name, mid, r) ==
    [op |-> op, mtype |-> mtype, address |-> address, name |-> name,
     mid |-> mid, ok |-> r.ok, err |-> r.err]

\* __init__: nothing saved yet, so load_config gives the default config
Init ==
    /\ now = 0
    /\ disk = NoFile
    /\ cfg = backend_init(NoFile).cfg
    /\ last = Idle
    /\ saving = [pc |-> "idle", text |-> <<>>, old |-> NoFile]
    /\ reader = [ok |-> TRUE]
    /\ normIn = [v |-> 0, form |-> "empty", text |-> <<>>]
    /\ normOut = [n |-> 0, first |-> Fail(""), second |-> Fail("")]
    /\ dev = NoDev
    /\ io = IoIdle
    /\ env = NoEnv
    /\ hw = NoHw
    /\ pm = NoPm

\* the effect of a handler that ends in save_config
Apply(r) ==
    /\ cfg' = r.cfg
    /\ disk' = IF r.save THEN save_config(r.cfg, now) ELSE disk
    /\ UNCHANGED <<now, saving, reader, normIn, normOut, dev, io, env, hw, pm>>

AddModule ==
    /\ last.op = "none"
    /\ Len(cfg.modules) < MaxModules
    /\ \E t \in TypeInputs, a \in AddrInputs, n \in AddNames :
          LET r == add_module(cfg, t, a, n)
          IN  Apply(r) /\ last' = Call("add", t, a, n, <<>>, r)

HttpAdd ==
    /\ last.op = "none"
    /\ Len(cfg.modules) < MaxModules
    /\ \E t \in TypeInputs, a \in AddrInputs, n \in AddNames, sc \in ScanOutcomes :
          LET r == modules_add(cfg, t, a, n, sc)
          IN  Apply(r) /\ last' = Call("http_add", t, a, n, <<>>, r)

RemoveModule ==
    /\ last.op = "none"
    /\ \E mid \in IdInputs :
          LET r == remove_module(cfg, mid)
          IN  Apply(r) /\ last' = Call("remove", <<>>, <<>>, <<>>, mid, r)

RenameModule ==
    /\ last.op = "none"
    /\ \E mid \in IdInputs, n \in RenameNames :
          LET r == rename_module(cfg, mid, n)
          IN  Apply(r) /\ last' = Call("rename", <<>>, <<>>, n, mid, r)

ChangeModuleAddress ==
    /\ last.op = "none"
    /\ \E mid \in IdInputs, a \in AddrInputs :
          LET r == change_module_address(cfg, mid, a)
          IN  Apply(r) /\ last' = Call("change", <<>>, a, <<>>, mid, r)

\* the result goes back to the caller; the backend waits for the next call
Return ==
    /\ last.op # "none"
    /\ last' = Idle
    /\ UNCHANGED <<now, cfg, disk, saving, reader, normIn, normOut, dev, io, env, hw, pm>>

Next ==
    \/ AddModule
    \/ HttpAdd
    \/ RemoveModule
    \/ RenameModule
    \/ ChangeModuleAddress
    \/ Return

Spec == Init /\ [][Next]_vars

----------------------------------------------------------------------------
(* Address sweep: analog modules moved to every address, in every form *)

UpperChar(c) ==
    IF \E i \in 1..26 : LowerLetters[i] = c
    THEN UpperLetters[CHOOSE i \in 1..26 : LowerLetters[i] = c]
    ELSE c

Upper(s) == [i \in 1..Len(s) |-> UpperChar(s[i])]

\* the text a caller may type for the integer v
Render(v, form) ==
    CASE form = "0x"     -> <<"0","x">> \o HexOf(v)
      [] form = "bare"   -> HexOf(v)
      [] form = "upper"  -> Upper(<<"0","x">> \o HexOf(v))
      [] form = "padded" -> <<" ">> \o HexOf(v) \o <<" ","\n">>
      [] form = "zeros"  -> <<"0","x","0","0">> \o HexOf(v)
      [] form = "plus"   -> <<"+">> \o HexOf(v)
      [] form = "minus"  -> <<"-">> \o HexOf(v)
      [] form = "blank"  -> <<" "," ">>
      [] form = "empty"  -> <<>>
      [] form = "prefix" -> <<"0","x">>
      [] form = "junk"   -> HexOf(v) \o <<"g">>

SweepForms == {"0x", "upper"}
SweepTypes == { <<"a","i","o">>, <<"i","2","c">> }
SweepAddrs == { <<"0","x","3","0">>, <<"0","x","3","1">> }

\* /modules/add with the address found on the bus
SweepAdd ==
    /\ last.op = "none"
    /\ Len(cfg.modules) < MaxModules
    /\ \E t \in SweepTypes, a \in SweepAddrs, n \in AddNames :
          LET r == modules_add(cfg, t, a, n, "present")
          IN  Apply(r) /\ last' = Call("http_add", t, a, n, <<>>, r)

\* change_module_address of an analog module to any address text
SweepChange ==
    /\ last.op = "none"
    /\ \E i \in 1..Len(cfg.modules), v \in 0..MaxSweep, f \in SweepForms :
          /\ cfg.modules[i].type = <<"a","i","o">>
          /\ LET r == change_module_address(cfg, cfg.modules[i].id, Render(v, f))
             IN  Apply(r) /\ last' = Call("change", <<>>, Render(v, f), <<>>,
                                           cfg.modules[i].id, r)

NextSweep ==
    \/ SweepAdd
    \/ SweepChange
    \/ Return

SpecSweep == Init /\ [][NextSweep]_vars

----------------------------------------------------------------------------
(* Start-up on a config.json that is already there: written by this        *)
(* program, by an earlier version of it, or by hand, with any bus number   *)

LoadBusNums == {0, 1, 7}

\* module lists a stored document may hold
StoredLists ==
    { <<>>,
      <<ModuleEntry(module_id(<<"0","x","2","1">>), <<"d","o">>,
                    <<"0","x","2","1">>, <<"a">>)>>,
      <<ModuleEntry(module_id(<<"0","x","3","0">>), <<"a","i","o">>,
                    <<"0","x","3","0">>, <<"a">>)>> }

\* the documents found at start-up; one of them has no i2c_bus_num key
StoredDocs ==
    {NoFile}
    \cup {[exists |-> TRUE,
           text |-> Dump([controller_name |-> "Home Controller", notes |-> "",
                          modules |-> ms, saved_at |-> 0])] : ms \in StoredLists}
    \cup {save_config([ControllerConfig EXCEPT !.i2c_bus_num = b,
                                                !.modules = ms], 0) :
             b \in LoadBusNums, ms \in StoredLists}

InitLoad ==
    /\ now = 0
    /\ disk \in StoredDocs
    /\ cfg = backend_init(disk).cfg
    /\ last = [Idle EXCEPT !.op = "restart"]
    /\ saving = [pc |-> "idle", text |-> <<>>, old |-> NoFile]
    /\ reader = [ok |-> TRUE]
    /\ normIn = [v |-> 0, form |-> "empty", text |-> <<>>]
    /\ normOut = [n |-> 0, first |-> Fail(""), second |-> Fail("")]
    /\ dev = NoDev
    /\ io = IoIdle
    /\ env = NoEnv
    /\ hw = NoHw
    /\ pm = NoPm

\* the process is stopped and started again: HomeControllerBackend()
Restart ==
    /\ last.op = "none"
    /\ backend_init(disk).ok
    /\ cfg' = backend_init(disk).cfg
    /\ last' = [Idle EXCEPT !.op = "restart"]
    /\ UNCHANGED <<now, disk, saving, reader, normIn, normOut, dev, io, env, hw, pm>>

NextLoad ==
    \/ Restart
    \/ SweepAdd
    \/ RemoveModule
    \/ RenameModule
    \/ Return

SpecLoad == InitLoad /\ [][NextLoad]_vars

----------------------------------------------------------------------------
(* Device I/O: reads and writes of configured modules, on the real bus or  *)
(* on the simulation table                                                 *)

A20 == <<"0","x","2","0">>
A21 == <<"0","x","2","1">>
A22 == <<"0","x","2","2">>
A30 == <<"0","x","3","0">>

\* the modules of the installation: type and address
IoModules ==
    { << <<"d","o">>, A21 >>, << <<"a","i","o">>, A30 >>, << <<"d","i">>, A22 >> }

\* what dev_i2c.json may hold when simulation is switched on
DevFiles ==
    { <<>>,
      << [k |-> A21, v |-> [gpio_a |-> Num(129), gpio_b |-> Num(0)]] >>,
      << [k |-> A22, v |-> [gpio_a |-> Num(255), gpio_b |-> Num(2)]],
         [k |-> A20, v |-> [gpio_a |-> Num(1), gpio_b |-> Num(0)]] >>,
      << [k |-> A21, v |-> [gpio_a |-> Bad, gpio_b |-> Num(0)]] >>,
      << [k |-> <<"0","X","3","0">>,
          v |-> [channels |-> <<Num(0), Num(0), Num(51)>>]] >>,
      << [k |-> A30,
          v |-> [raw_response |-> <<Num(10), Bad, Blank, Num(51)>>]] >> }

\* the ceiling documents: 5.0 V on input 3 of the module at 0x30, nothing
\* for its other inputs
CeilingDocs ==
    { << [k |-> module_id(A30), v |-> [ch \in {3} |-> Num(50)]] >> }

\* what the real bus does during one read: it fails, or an analog device
\* answers nothing or "1.0,zz,5.1"
HwReads ==
    { [fail |-> "early", tokens |-> <<>>],
      [fail |-> "none", tokens |-> <<>>],
      [fail |-> "none", tokens |-> <<Num(10), Bad, Num(51)>>] }

\* what the real bus does during one write
HwWrites == { [fail |-> f, tokens |-> <<>>] : f \in {"none", "early", "late"} }

\* channel and value of a write, the value in tenths: (9, 1.5) is <<9, 15>>
DoWrites ==
    { <<9, 10>>, <<9, 0>>, <<1, 10>>, <<9, 15>>, <<9, 20>>, <<0, 10>>, <<17, 10>> }
AioWrites == { <<3, 20>>, <<3, 51>>, <<9, 20>> }
WritesFor(type) ==
    IF type = <<"a","i","o">> THEN AioWrites
    ELSE IF type = <<"d","o">> THEN DoWrites
    ELSE { <<9, 10>> }

\* _load_dev_data: the records of the file under lower-cased keys
load_dev_data(file) ==
    [i \in 1..Len(file) |-> [k |-> Lower(file[i].k), v |-> file[i].v]]

InitIO ==
    /\ now = 0
    /\ disk = NoFile
    /\ cfg = backend_init(NoFile).cfg
    /\ last = Idle
    /\ saving = [pc |-> "idle", text |-> <<>>, old |-> NoFile]
    /\ reader = [ok |-> TRUE]
    /\ normIn = [v |-> 0, form |-> "empty", text |-> <<>>]
    /\ normOut = [n |-> 0, first |-> Fail(""), second |-> Fail("")]
    /\ dev \in {[mode |-> FALSE, data |-> <<>>, file |-> f] : f \in DevFiles}
    /\ io = IoIdle
    /\ env \in {[smbus |-> s, regs |-> <<>>, ceil |-> c, log |-> {}] :
                   s \in BOOLEAN, c \in CeilingDocs}
    /\ hw = NoHw
    /\ pm = NoPm

\* POST /modules/add for a module that is on the bus
IoAdd ==
    /\ io.op = "none"
    /\ Len(cfg.modules) < MaxModules
    /\ \E tm \in IoModules :
          LET r == modules_add(cfg, tm[1], tm[2], <<>>, "skip")
          IN  /\ r.ok
              /\ cfg' = r.cfg
              /\ disk' = save_config(r.cfg, now)
    /\ io' = [io EXCEPT !.hist = NoHist]
    /\ UNCHANGED <<now, last, saving, reader, normIn, normOut, dev, env, hw, pm>>

\* server start-up with -dev: enable_dev_mode() right after the backend is
\* made, before any request is served (the registry is still empty)
EnableDevMode ==
    /\ io.op = "none"
    /\ ~dev.mode
    /\ Len(cfg.modules) = 0
    /\ dev' = [dev EXCEPT !.mode = TRUE, !.data = load_dev_data(dev.file)]
    /\ io' = [io EXCEPT !.hist = NoHist]
    /\ UNCHANGED <<now, cfg, disk, last, saving, reader, normIn, normOut, env, hw, pm>>

\* the answer of a call, as io keeps it
IoCall(op, mid, channel, value, r, h) ==
    [op |-> op, mid |-> mid, channel |-> channel, value |-> value,
     ok |-> r.ok, raised |-> r.raised, err |-> r.err, ports |-> r.ports,
     channels |-> r.channels, volts |-> r.volts, alerts |-> r.alerts,
     has_alerts |-> r.has_alerts, bus |-> r.bus,
     i2c_present |-> r.i2c_present, hist |-> h]

\* hist after a read of module m
HistRead(m, r) ==
    IF ~(dev.mode /\ m.type = <<"d","o">> /\ r.ok) THEN NoHist
    ELSE IF io.hist.stage = "written" /\ io.hist.mid = m.id
         THEN [io.hist EXCEPT !.stage = "checked"]
    ELSE [NoHist EXCEPT !.stage = "read", !.mid = m.id, !.ports = r.ports]

\* hist after a write to module m
HistWrite(m, channel, value, r) ==
    IF /\ dev.mode /\ r.ok
       /\ io.hist.stage = "read" /\ io.hist.mid = m.id
       /\ channel \in 1..16 /\ value \in {0, 10}
    THEN [io.hist EXCEPT !.stage = "written", !.channel = channel,
                         !.value = value \div 10]
    ELSE NoHist

\* what a read that answered r leaves behind: the answer and the alert log
ReadEffect(m, r) ==
    /\ io' = IoCall("read", m.id, 0, 0, r, HistRead(m, r))
    /\ env' = [env EXCEPT !.log = @ \cup {r.alerts[j] : j \in 1..Len(r.alerts)}]

\* GET /api/module_read/<id>
ReadModule ==
    /\ io.op = "none"
    /\ \E i \in 1..Len(cfg.modules), hwin \in HwReads :
          ReadEffect(cfg.modules[i],
                     read_module(cfg, dev, env, cfg.modules[i].id, hwin))
    /\ UNCHANGED <<now, cfg, disk, last, saving, reader, normIn, normOut, dev, hw, pm>>

\* WriteEffect without the _save_dev_data() call
WriteEffect_nosave(m, ch, v, w) ==
    /\ io' = IoCall("write", m.id, ch, v, w.r, HistWrite(m, ch, v, w.r))
    /\ dev' = [dev EXCEPT !.data = w.data]
    /\ env' = [env EXCEPT !.regs = w.regs]

\* what a write that came out as w leaves behind: the answer, the table
\* and its file, the registers of the bus
WriteEffect(m, ch, v, w) ==
    /\ io' = IoCall("write", m.id, ch, v, w.r, HistWrite(m, ch, v, w.r))
    /\ dev' = [dev EXCEPT !.data = w.data,
                          !.file = IF w.saved THEN SortedByKey(w.data) ELSE @]
    /\ env' = [env EXCEPT !.regs = w.regs]

\* POST /api/gui/action with action = "write"
WriteModule ==
    /\ io.op = "none"
    /\ \E i \in 1..Len(cfg.modules), hwin \in HwWrites :
       \E cv \in WritesFor(cfg.modules[i].type) :
          WriteEffect(cfg.modules[i], cv[1], cv[2],
                      write_module(cfg, dev, env, cfg.modules[i].id,
                                   cv[1], cv[2], hwin))
    /\ UNCHANGED <<now, cfg, disk, last, saving, reader, normIn, normOut, hw, pm>>

\* GET /api/hat_status, HC_HAT_ADDR not set: bus 0, address 0x20
ReadHat ==
    /\ io.op = "none"
    /\ \E hwin \in HwWrites :
          io' = IoCall("hat", <<>>, 0, 0,
                       read_hat_status(dev, env, 0, MCP23017_MIN, hwin), NoHist)
    /\ UNCHANGED <<now, cfg, disk, last, saving, reader, normIn, normOut, dev, env, hw, pm>>

\* the answer goes back to the caller
IoReturn ==
    /\ io.op # "none"
    /\ io' = [IoIdle EXCEPT !.hist = io.hist]
    /\ UNCHANGED <<now, cfg, disk, last, saving, reader, normIn, normOut, dev, env, hw, pm>>

NextIO ==
    \/ IoAdd
    \/ EnableDevMode
    \/ ReadModule
    \/ WriteModule
    \/ ReadHat
    \/ IoReturn

SpecIO == InitIO /\ [][NextIO]_vars

----------------------------------------------------------------------------
(* The real-bus branch of a digital-output write, one bus transaction per  *)
(* step (backend.py:718-783).  Every request is served on a thread of its  *)
(* own (app.run of the Flask development server) and write_module takes no *)
(* lock, so the transactions of two calls may alternate.  The device is    *)
(* the MCP23017 of one digital-output module; its pins follow the output   *)
(* latch, so a read of GPIO answers the latch.  A transaction fails at     *)
(* most MaxFaults times in a run.                                          *)

MaxFaults == 2
Threads == {1, 2}

\* channel and int(value) of the writes: channels 1 and 2 on port A, 9 on B
BusWrites == { <<1, 1>>, <<2, 1>>, <<2, 0>>, <<9, 1>> }

\* OLAT and IODIR when the first write begins: IODIR after a power-on reset
\* is all ones
BusDevices ==
    { [olat |-> <<0, 0>>, iodir |-> <<255, 255>>],
      [olat |-> <<4, 0>>, iodir |-> <<0, 0>>] }

\* a call that has not begun
NoThread == [pc |-> "idle", channel |-> 0, port |-> 1, bit |-> 0, value |-> 0,
             cur |-> 0, iodir |-> 0, trace |-> <<>>, ok |-> FALSE, err |-> "",
             ports |-> <<0, 0>>]

InitBus ==
    /\ now = 0
    /\ disk = NoFile
    /\ cfg = backend_init(NoFile).cfg
    /\ last = Idle
    /\ saving = [pc |-> "idle", text |-> <<>>, old |-> NoFile]
    /\ reader = [ok |-> TRUE]
    /\ normIn = [v |-> 0, form |-> "empty", text |-> <<>>]
    /\ normOut = [n |-> 0, first |-> Fail(""), second |-> Fail("")]
    /\ dev = NoDev
    /\ io = IoIdle
    /\ env = [NoEnv EXCEPT !.smbus = TRUE]
    /\ hw \in {[olat |-> d.olat, iodir |-> d.iodir, faults |-> 0,
                th |-> [t \in Threads |-> NoThread]] : d \in BusDevices}
    /\ pm = NoPm

\* whether a transaction goes through: it may fail while faults remain
Outcomes == IF hw.faults < MaxFaults THEN {TRUE, FALSE} ELSE {TRUE}

\* one transaction of thread t: what it was, whether it went through, the
\* byte read or written; the thread goes on as nxt, the device as olat/iodir
BusStep(t, op, went, byte, nxt, olat, iodir) ==
    /\ hw' = [olat |-> olat, iodir |-> iodir,
              faults |-> IF went THEN hw.faults ELSE hw.faults + 1,
              th |-> [hw.th EXCEPT ![t] =
                        [nxt EXCEPT !.trace =
                            Append(hw.th[t].trace,
                                   [op |-> op, ok |-> went, byte |-> byte])]]]
    /\ UNCHANGED <<now, cfg, disk, last, saving, reader, normIn, normOut,
                   dev, io, env, pm>>

\* "except Exception as e: return {ok: False, error: I2C write error}"
Aborted(th) == [th EXCEPT !.pc = "done", !.ok = FALSE, !.err = "I2C write error"]

\* write_module(id, channel, value) reaches "with smbus2.SMBus(...) as bus"
BusBegin(t) ==
    /\ hw.th[t].pc = "idle"
    /\ \E cv \in BusWrites :
          hw' = [hw EXCEPT !.th[t] =
                    [NoThread EXCEPT !.pc = "olat_read",
                                     !.channel = cv[1],
                                     !.port = IF cv[1] <= 8 THEN 1 ELSE 2,
                                     !.bit = IF cv[1] <= 8 THEN cv[1] - 1 ELSE cv[1] - 9,
                                     !.value = cv[2]]]
    /\ UNCHANGED <<now, cfg, disk, last, saving, reader, normIn, normOut,
                   dev, io, env, pm>>

\* cur = bus.read_byte_data(addr, MCP_OLATA / MCP_OLATB)
OlatRead(t) ==
    LET th == hw.th[t]
    IN  /\ th.pc = "olat_read"
        /\ \E went \in Outcomes :
              BusStep(t, "olat_read", went, IF went THEN hw.olat[th.port] ELSE 0,
                      IF went THEN [th EXCEPT !.pc = "iodir_read",
                                              !.cur = hw.olat[th.port]]
                              ELSE [th EXCEPT !.pc = "gpio_fallback"],
                      hw.olat, hw.iodir)

\* the fallback: cur = bus.read_byte_data(addr, MCP_GPIOA / MCP_GPIOB)
GpioFallback(t) ==
    LET th == hw.th[t]
    IN  /\ th.pc = "gpio_fallback"
        /\ \E went \in Outcomes :
              BusStep(t, "gpio_fallback", went, IF went THEN hw.olat[th.port] ELSE 0,
                      IF went THEN [th EXCEPT !.pc = "iodir_read",
                                              !.cur = hw.olat[th.port]]
                              ELSE Aborted(th),
                      hw.olat, hw.iodir)

\* IodirRead with a failure that leaves the method
IodirRead_abort(t) ==
    LET th == hw.th[t]
    IN  /\ th.pc = "iodir_read"
        /\ \E went \in Outcomes :
              BusStep(t, "iodir_read", went, IF went THEN hw.iodir[th.port] ELSE 0,
                      IF ~went THEN Aborted(th)
                      ELSE IF Bit(hw.iodir[th.port], th.bit) = 1
                      THEN [th EXCEPT !.pc = "iodir_write",
                                      !.iodir = hw.iodir[th.port]]
                      ELSE [th EXCEPT !.pc = "olat_write"],
                      hw.olat, hw.iodir)

\* iodir = bus.read_byte_data(addr, MCP_IODIRA / MCP_IODIRB), inside the
\* best-effort try
IodirRead(t) ==
    LET th == hw.th[t]
    IN  /\ th.pc = "iodir_read"
        /\ \E went \in Outcomes :
              BusStep(t, "iodir_read", went, IF went THEN hw.iodir[th.port] ELSE 0,
                      IF went /\ Bit(hw.iodir[th.port], th.bit) = 1
                      THEN [th EXCEPT !.pc = "iodir_write",
                                      !.iodir = hw.iodir[th.port]]
                      ELSE [th EXCEPT !.pc = "olat_write"],
                      hw.olat, hw.iodir)

\* bus.write_byte_data(addr, MCP_IODIRA / MCP_IODIRB, iodir & ~(1 << bit))
IodirWrite(t) ==
    LET th == hw.th[t]
        new_iodir == ClearBit(th.iodir, th.bit)
    IN  /\ th.pc = "iodir_write"
        /\ \E went \in Outcomes :
              BusStep(t, "iodir_write", went, new_iodir,
                      [th EXCEPT !.pc = "olat_write"],
                      hw.olat,
                      IF went THEN [hw.iodir EXCEPT ![th.port] = new_iodir]
                              ELSE hw.iodir)

\* bus.write_byte_data(addr, MCP_OLATA / MCP_OLATB, new & 0xFF)
OlatWrite(t) ==
    LET th == hw.th[t]
        new == IF th.value = 1 THEN SetBit(th.cur, th.bit)
                               ELSE ClearBit(th.cur, th.bit)
    IN  /\ th.pc = "olat_write"
        /\ \E went \in Outcomes :
              BusStep(t, "olat_write", went, new,
                      IF went THEN [th EXCEPT !.pc = "gpio_a"] ELSE Aborted(th),
                      IF went THEN [hw.olat EXCEPT ![th.port] = new] ELSE hw.olat,
                      hw.iodir)

\* a = bus.read_byte_data(addr, MCP_GPIOA)
GpioARead(t) ==
    LET th == hw.th[t]
    IN  /\ th.pc = "gpio_a"
        /\ \E went \in Outcomes :
              BusStep(t, "gpio_a", went, IF went THEN hw.olat[1] ELSE 0,
                      IF went THEN [th EXCEPT !.pc = "gpio_b",
                                              !.ports = <<hw.olat[1], 0>>]
                              ELSE Aborted(th),
                      hw.olat, hw.iodir)

\* b = bus.read_byte_data(addr, MCP_GPIOB), and the result is returned
GpioBRead(t) ==
    LET th == hw.th[t]
    IN  /\ th.pc = "gpio_b"
        /\ \E went \in Outcomes :
              BusStep(t, "gpio_b", went, IF went THEN hw.olat[2] ELSE 0,
                      IF went THEN [th EXCEPT !.pc = "done", !.ok = TRUE,
                                              !.ports = <<th.ports[1], hw.olat[2]>>]
                              ELSE Aborted(th),
                      hw.olat, hw.iodir)

NextBus ==
    \E t \in Threads :
        \/ BusBegin(t)
        \/ OlatRead(t)
        \/ GpioFallback(t)
        \/ IodirRead(t)
        \/ IodirWrite(t)
        \/ OlatWrite(t)
        \/ GpioARead(t)
        \/ GpioBRead(t)

SpecBus == InitBus /\ [][NextBus]_vars

----------------------------------------------------------------------------
(* Pinmap contract validator (core/pinmap_validate.py, core/registry.py)   *)
(*                                                                         *)
(* A pinmap file is [exists, parses, contract_ref, pins]: parses = FALSE   *)
(* is a file yaml.safe_load rejects; contract_ref is "none" (no key),      *)
(* "ok" (names a contract that loads) or "dangling" (names a file that is  *)
(* not there); pins gives the net of the pins that have one, as text.      *)

\* get_known_modules(), in its order
KnownModules == << <<"a","i","o">>, <<"d","i">>, <<"d","o">> >>

NC == <<"N","C">>
SIG == <<"S","I","G">>
ReservedNet(p) == <<"R","E","S","E","R","V","E","D","_">> \o DecOf(p)

\* reserved_expected
reserved_expected == [p \in 21..30 |-> IF p = 22 THEN NC ELSE ReservedNet(p)]

\* _get_pin_net(pinmap, pin): "" for a pin without entry or net
get_pin_net(pinmap, pin) ==
    IF pin \in DOMAIN pinmap.pins THEN pinmap.pins[pin] ELSE <<>>

Finding(kind, type, pin) == [kind |-> kind, type |-> type, pin |-> pin]

\* the findings of range(lo, hi + 1) for which hit holds, in pin order
RECURSIVE PinFindings(_, _, _, _, _)
PinFindings(lo, hi, hit(_), kind, type) ==
    IF lo > hi THEN <<>>
    ELSE (IF hit(lo) THEN <<Finding(kind, type, lo)>> ELSE <<>>)
            \o PinFindings(lo + 1, hi, hit, kind, type)

\* the contract checks of one type's pinmap (pinmap_validate.py:56-84)
contract_checks(type, pinmap) ==
    LET net22 == Upper(get_pin_net(pinmap, 22))
        blank(p) == get_pin_net(pinmap, p) = <<>>
        mismatch(p) == Upper(get_pin_net(pinmap, p)) # reserved_expected[p]
    IN  (IF net22 \notin {NC, <<>>} THEN <<Finding("PIN22", type, 22)>> ELSE <<>>)
           \o PinFindings(1, 30, blank, "BLANK", type)
           \o PinFindings(21, 30, mismatch, "RESERVED", type)

\* cross_checks that compares the nets as they are written
cross_checks_exact(files, loaded) ==
    LET differs(p) ==
            Cardinality({get_pin_net(files[loaded[i]], p) : i \in 1..Len(loaded)}) > 1
    IN  IF loaded = <<>> THEN <<>>
        ELSE PinFindings(21, 30, differs, "CROSS", <<>>)

\* the cross-module pass over module_pinmaps (pinmap_validate.py:86-92);
\* loaded holds the positions in KnownModules of the maps that were loaded
cross_checks(files, loaded) ==
    LET differs(p) ==
            Cardinality({Upper(get_pin_net(files[loaded[i]], p)) :
                            i \in 1..Len(loaded)}) > 1
    IN  IF loaded = <<>> THEN <<>>
        ELSE PinFindings(21, 30, differs, "CROSS", <<>>)

\* the loop over get_known_modules() from position i on; acc is
\* [raised, errors, loaded] so far
RECURSIVE validate_from(_, _, _)
validate_from(i, files, acc) ==
    IF i > Len(KnownModules) \/ acc.raised THEN acc
    ELSE LET type == KnownModules[i]
             f == files[i]
         IN  IF ~f.exists
             THEN validate_from(i + 1, files,
                     [acc EXCEPT !.errors = Append(@, Finding("MISSING", type, 0))])
             ELSE IF ~f.parses
             THEN [acc EXCEPT !.raised = TRUE]
             ELSE IF f.contract_ref = "none"
             THEN validate_from(i + 1, files,
                     [acc EXCEPT !.errors = Append(@, Finding("NOREF", type, 0)),
                                 !.loaded = Append(@, i)])
             ELSE IF f.contract_ref = "dangling"
             THEN [acc EXCEPT !.raised = TRUE, !.loaded = Append(@, i)]
             ELSE validate_from(i + 1, files,
                     [acc EXCEPT !.errors = @ \o contract_checks(type, f),
                                 !.loaded = Append(@, i)])

\* validate(): [raised, ok, errors, loaded]; raised = TRUE is an exception
\* that leaves the function, with no result
validate(files) ==
    LET acc == validate_from(1, files,
                             [raised |-> FALSE, errors |-> <<>>, loaded |-> <<>>])
        errors == acc.errors \o cross_checks(files, acc.loaded)
    IN  IF acc.raised
        THEN [raised |-> TRUE, ok |-> FALSE, errors |-> <<>>, loaded |-> acc.loaded]
        ELSE [raised |-> FALSE, ok |-> (Len(errors) = 0), errors |-> errors,
              loaded |-> acc.loaded]

\* a pinmap that conforms: signal nets on 1..20, the reserved table on 21..30
ConformingPins == [p \in 1..30 |-> IF p <= 20 THEN SIG ELSE reserved_expected[p]]

\* ConformingPins without the entry of pin p
WithoutPin(p) == [q \in (1..30) \ {p} |-> ConformingPins[q]]

PinmapFile(ref, pins) ==
    [exists |-> TRUE, parses |-> TRUE, contract_ref |-> ref, pins |-> pins]

\* what the pinmap.yaml of one module type may be
PinmapFiles ==
    { [exists |-> FALSE, parses |-> FALSE, contract_ref |-> "none", pins |-> <<>>],
      [exists |-> TRUE, parses |-> FALSE, contract_ref |-> "none", pins |-> <<>>],
      PinmapFile("ok", ConformingPins),
      PinmapFile("dangling", ConformingPins),
      PinmapFile("none", [ConformingPins EXCEPT ![22] = SIG]),
      PinmapFile("ok", [ConformingPins EXCEPT ![22] = SIG]),
      PinmapFile("ok", [ConformingPins EXCEPT ![22] = <<"n","c">>]),
      PinmapFile("ok", [ConformingPins EXCEPT ![25] = Lower(ReservedNet(25))]),
      PinmapFile("ok", [ConformingPins EXCEPT ![25] = <<"S","P","A","R","E">>]),
      PinmapFile("ok", WithoutPin(30)),
      PinmapFile("ok", [ConformingPins EXCEPT ![5] = <<>>]) }

InitPin ==
    /\ now = 0
    /\ disk = NoFile
    /\ cfg = backend_init(NoFile).cfg
    /\ last = Idle
    /\ saving = [pc |-> "idle", text |-> <<>>, old |-> NoFile]
    /\ reader = [ok |-> TRUE]
    /\ normIn = [v |-> 0, form |-> "empty", text |-> <<>>]
    /\ normOut = [n |-> 0, first |-> Fail(""), second |-> Fail("")]
    /\ dev = NoDev
    /\ io = IoIdle
    /\ env = NoEnv
    /\ hw = NoHw
    /\ pm \in {[NoPm EXCEPT !.files = <<a, b, c>>] :
                  a \in PinmapFiles, b \in PinmapFiles, c \in PinmapFiles}

\* python -m home_controller.core.pinmap_validate
Validate ==
    /\ ~pm.ran
    /\ LET r == validate(pm.files)
       IN  pm' = [files |-> pm.files, ran |-> TRUE, raised |-> r.raised,
                  ok |-> r.ok, errors |-> r.errors, loaded |-> r.loaded]
    /\ UNCHANGED <<now, cfg, disk, last, saving, reader, normIn, normOut,
                   dev, io, env, hw>>

NextPin == Validate

SpecPin == InitPin /\ [][NextPin]_vars

----------------------------------------------------------------------------
(* normalize_address on its own: every value up to MaxVal in every form *)

NormForms == {"0x", "bare", "upper", "padded", "zeros", "plus", "minus",
              "blank", "empty", "prefix", "junk"}

InitNorm ==
    /\ now = 0
    /\ disk = NoFile
    /\ cfg = backend_init(NoFile).cfg
    /\ last = Idle
    /\ saving = [pc |-> "idle", text |-> <<>>, old |-> NoFile]
    /\ reader = [ok |-> TRUE]
    /\ normIn \in {[v |-> v, form |-> f, text |-> Render(v, f)] :
                      v \in 0..MaxVal, f \in NormForms}
    /\ normOut = [n |-> 0, first |-> Fail(""), second |-> Fail("")]
    /\ dev = NoDev
    /\ io = IoIdle
    /\ env = NoEnv
    /\ hw = NoHw
    /\ pm = NoPm

NormFirst ==
    /\ normOut.n = 0
    /\ normOut' = [normOut EXCEPT !.n = 1,
                                  !.first = normalize_address(normIn.text)]
    /\ UNCHANGED <<now, cfg, disk, last, saving, reader, normIn, dev, io, env, hw, pm>>

\* the canonical text that came back goes in again
NormSecond ==
    /\ normOut.n = 1
    /\ normOut.first.ok
    /\ normOut' = [normOut EXCEPT !.n = 2,
                                  !.second = normalize_address(normOut.first.hex)]
    /\ UNCHANGED <<now, cfg, disk, last, saving, reader, normIn, dev, io, env, hw, pm>>

NextNorm ==
    \/ NormFirst
    \/ NormSecond

SpecNorm == InitNorm /\ [][NextNorm]_vars

----------------------------------------------------------------------------
(* save_config step by step: open(path, "w") empties the file, json.dump   *)
(* writes through the file buffer, leaving the with-block closes the file. *)
(* The process may be killed between any two steps, and config.json may be *)
(* read by anyone at any time.                                             *)

SaveTypes == { <<"d","o">> }
SaveAddrs == { <<"0","x","2","1">>, <<"0","x","3","0">> }
Notes == {"", "lab"}

NotSaving == [pc |-> "idle", text |-> <<>>, old |-> NoFile]

\* the backend is up: __init__ did not fail
Up == ~(last.op = "restart" /\ ~last.ok)

\* a handler changed self.cfg and entered save_config
Enter(r, l) ==
    /\ cfg' = r.cfg
    /\ last' = l
    /\ saving' = IF r.save
                 THEN [pc |-> "open", text |-> Dump(RawOf(r.cfg, now)), old |-> disk]
                 ELSE saving
    /\ UNCHANGED <<now, disk, reader, normIn, normOut, dev, io, env, hw, pm>>

SaveAdd ==
    /\ Up /\ saving.pc = "idle"
    /\ Len(cfg.modules) < MaxModules
    /\ \E t \in SaveTypes, a \in SaveAddrs, n \in AddNames :
          LET r == modules_add(cfg, t, a, n, "present")
          IN  Enter(r, Call("http_add", t, a, n, <<>>, r))

SaveRemove ==
    /\ Up /\ saving.pc = "idle"
    /\ \E i \in 1..Len(cfg.modules) :
          LET r == remove_module(cfg, cfg.modules[i].id)
          IN  Enter(r, Call("remove", <<>>, <<>>, <<>>, cfg.modules[i].id, r))

SaveRename ==
    /\ Up /\ saving.pc = "idle"
    /\ \E i \in 1..Len(cfg.modules), n \in RenameNames :
          LET r == rename_module(cfg, cfg.modules[i].id, n)
          IN  Enter(r, Call("rename", <<>>, <<>>, n, cfg.modules[i].id, r))

\* app.config_post: storage.load_config(), two keys set, storage.save_config()
ConfigPost ==
    /\ saving.pc = "idle"
    /\ load_raw(disk).ok
    /\ \E n \in Notes :
          /\ saving' = [pc |-> "open", old |-> disk,
                        text |-> Dump(config_post(load_raw(disk).raw, n))]
          /\ UNCHANGED <<now, cfg, disk, last, reader, normIn, normOut, dev, io, env, hw, pm>>

\* open(path, "w"): the file exists and is empty
SaveOpen ==
    /\ saving.pc = "open"
    /\ disk' = [exists |-> TRUE, text |-> <<>>]
    /\ saving' = [saving EXCEPT !.pc = "write"]
    /\ UNCHANGED <<now, cfg, last, reader, normIn, normOut, dev, io, env, hw, pm>>

\* the buffer is flushed: some more of the document reaches the file
SaveFlush ==
    /\ saving.pc = "write"
    /\ \E k \in (Len(disk.text) + 1)..(Len(saving.text) - 1) :
          disk' = [disk EXCEPT !.text = SubSeq(saving.text, 1, k)]
    /\ UNCHANGED <<now, cfg, last, saving, reader, normIn, normOut, dev, io, env, hw, pm>>

\* the with-block ends: everything is written and the file is closed
SaveClose ==
    /\ saving.pc = "write"
    /\ disk' = [disk EXCEPT !.text = saving.text]
    /\ saving' = NotSaving
    /\ UNCHANGED <<now, cfg, last, reader, normIn, normOut, dev, io, env, hw, pm>>

\* the process is killed inside save_config and started again
Crash ==
    /\ saving.pc \in {"open", "write"}
    /\ cfg' = backend_init(disk).cfg
    /\ last' = [Idle EXCEPT !.op = "restart", !.ok = backend_init(disk).ok,
                            !.err = IF backend_init(disk).ok THEN ""
                                    ELSE "JSONDecodeError"]
    /\ saving' = NotSaving
    /\ UNCHANGED <<now, disk, reader, normIn, normOut, dev, io, env, hw, pm>>

\* somebody loads config.json while it is being saved
Read ==
    /\ saving.pc # "idle"
    /\ reader' = [ok |-> load_config(disk).ok]
    /\ reader' # reader
    /\ UNCHANGED <<now, cfg, disk, last, saving, normIn, normOut, dev, io, env, hw, pm>>

Tick ==
    /\ saving.pc = "idle"
    /\ now < MaxTime
    /\ now' = now + 1
    /\ UNCHANGED <<cfg, disk, last, saving, reader, normIn, normOut, dev, io, env, hw, pm>>

NextSave ==
    \/ SaveAdd
    \/ SaveRemove
    \/ SaveRename
    \/ ConfigPost
    \/ SaveOpen
    \/ SaveFlush
    \/ SaveClose
    \/ Crash
    \/ Read
    \/ Tick

SpecSave == Init /\ [][NextSave]_vars

----------------------------------------------------------------------------
(* Vocabulary of the properties *)

Digital == { <<"d","i">>, <<"d","o">> }
Analog == <<"a","i","o">>
Mutations == {"add", "http_add", "remove", "rename", "change"}
Adds == {"add", "http_add"}

InDigitalRange(v) == MCP23017_MIN <= v /\ v <= MCP23017_MAX
InAnalogRange(v) == AIO_BASE <= v /\ v <= AIO_MAX

\* the positions of the entries of c whose address reads as the integer v
EntriesAt(c, v) ==
    {i \in 1..Len(c.modules) :
        address_int(c.modules[i]).ok /\ address_int(c.modules[i]).val = v}

\* 0xNN with two lower-case hexadecimal digits
IsCanonicalHex(a) ==
    /\ Len(a) = 4
    /\ a[1] = "0" /\ a[2] = "x"
    /\ \A i \in 3..4 : \E d \in 1..16 : HexDigits[d] = a[i]

\* the id of the module at the 7-bit address v, written out
ExpectedId(v) ==
    <<"i","2","c","1","-","0","x", HexDigits[(v \div 16) + 1], HexDigits[(v % 16) + 1]>>

\* the position (1-based) of the module a call names, 0 when there is none
Target(c, mid) == find_module_index(c, Strip(mid)) + 1

\* a module other than the one at position k has the id of address v
OwnedByOther(c, k, v) ==
    \E j \in 1..Len(c.modules) : j # k /\ c.modules[j].id = ExpectedId(v)

\* the harness input is a number, and this is the number
IsNumber(form) == form \in {"0x", "bare", "upper", "padded", "zeros", "plus", "minus"}
Meant(i) == IF i.form = "minus" THEN 0 - i.v ELSE i.v

----------------------------------------------------------------------------
(* C1: no two entries of the registry have the same id, whatever add,      *)
(* remove, rename and changeAddress calls were made, successful or not.    *)
C1_UniqueIds ==
    \A i, j \in 1..Len(cfg.modules) :
        i # j => cfg.modules[i].id # cfg.modules[j].id

\* C1, witness: a changeAddress onto the other module's address was refused
C1_Witness ==
    /\ Len(cfg.modules) = 2
    /\ last.op = "change"
    /\ last.err = "AddressCollision"

(* C2: add with type di or do and a valid 7-bit address fails with a       *)
(* guardrail error outside [0x20,0x27] and succeeds inside it when no      *)
(* entry is at that address yet; a failed add changes nothing.             *)
C2_DigitalAddGuardrail ==
    [][ LET l == last'
            a == normalize_address(l.address)
        IN  (l.op \in Adds /\ Lower(Strip(l.mtype)) \in Digital /\ a.ok) =>
               /\ ~InDigitalRange(a.val) => (~l.ok /\ l.err = "Guardrail")
               /\ (InDigitalRange(a.val) /\ EntriesAt(cfg, a.val) = {}
                      /\ l.err \notin {"ScanFailed", "NotOnBus"}) => l.ok
               /\ ~l.ok => (cfg' = cfg /\ disk' = disk) ]_vars

(* C3, as claimed: changeAddress of an analog module to a valid 7-bit      *)
(* address fails outside [0x30,0x37], leaving the registry unchanged, and  *)
(* succeeds inside, after which the entry's id is the id derived from the  *)
(* new address.                                                            *)
C3_Original ==
    [][ LET l == last'
            a == normalize_address(l.address)
            k == Target(cfg, l.mid)
        IN  (l.op = "change" /\ k > 0 /\ a.ok /\ cfg.modules[k].type = Analog) =>
               IF InAnalogRange(a.val)
               THEN l.ok /\ cfg'.modules[k].id = ExpectedId(a.val)
               ELSE ~l.ok /\ cfg' = cfg /\ disk' = disk ]_vars

(* C3, as amended: changeAddress of an analog module to a valid 7-bit      *)
(* address fails outside [0x30,0x37], and inside it when another module    *)
(* owns the id derived from the address, leaving registry and document     *)
(* unchanged; otherwise it succeeds, the entry's id is the id derived from *)
(* the new address, and the change is saved.                               *)
C3_AnalogChangeGuardrail ==
    [][ LET l == last'
            a == normalize_address(l.address)
            k == Target(cfg, l.mid)
        IN  (l.op = "change" /\ k > 0 /\ a.ok /\ cfg.modules[k].type = Analog) =>
               IF InAnalogRange(a.val) /\ ~OwnedByOther(cfg, k, a.val)
               THEN /\ l.ok
                    /\ cfg'.modules[k].id = ExpectedId(a.val)
                    /\ cfg'.modules[k].address_hex = SubSeq(ExpectedId(a.val), 6, 9)
                    /\ JsonLoad(disk'.text).raw.modules = cfg'.modules
               ELSE ~l.ok /\ cfg' = cfg /\ disk' = disk ]_vars

\* C3, witness: an analog module was just moved to 0x37, the last address
\* of the range, typed as 0X37, with another module in the registry
C3_Witness ==
    /\ last.op = "change" /\ last.ok
    /\ last.address = <<"0","X","3","7">>
    /\ Len(cfg.modules) = 2
    /\ \E i \in 1..2 : /\ cfg.modules[i].type = Analog
                       /\ cfg.modules[i].id = ExpectedId(AIO_MAX)

(* C4: a second add at an address that already has an entry fails with a   *)
(* collision error, and the registry keeps exactly one entry for that      *)
(* address: the first one, with its name.                                  *)
C4_SecondAddCollides ==
    [][ LET l == last'
            a == normalize_address(l.address)
        IN  (l.op \in Adds /\ Lower(Strip(l.mtype)) \in VALID_TYPES /\ a.ok
                /\ Cardinality(EntriesAt(cfg, a.val)) = 1
                /\ l.err \notin {"ScanFailed", "NotOnBus", "AddressInvalid"}) =>
               /\ ~l.ok /\ l.err = "ModuleExists"
               /\ cfg'.modules = cfg.modules
               /\ Cardinality(EntriesAt(cfg', a.val)) = 1 ]_vars

(* C5: in every registry state reached through add and changeAddress,      *)
(* every entry's address, read as an integer, lies in [0x03, 0x77].        *)
C5_AddressInBusRange ==
    \A i \in 1..Len(cfg.modules) :
        /\ address_int(cfg.modules[i]).ok
        /\ SCAN_MIN <= address_int(cfg.modules[i]).val
        /\ address_int(cfg.modules[i]).val <= SCAN_MAX

(* C6: every entry's address is stored as lower-case 0xNN and its id is    *)
(* "i2c<bus>-<address>" for the fixed bus number, whatever textual form    *)
(* the caller passed.                                                      *)
C6_CanonicalAddressAndId ==
    \A i \in 1..Len(cfg.modules) :
        /\ IsCanonicalHex(cfg.modules[i].address_hex)
        /\ cfg.modules[i].id =
              <<"i","2","c">> \o DecOf(DEFAULT_I2C_BUS_NUM) \o <<"-">>
              \o cfg.modules[i].address_hex

(* C7: address normalization is idempotent: normalizing the canonical text *)
(* it returned gives the same text and the same integer.                   *)
C7_NormalizeIdempotent ==
    normOut.n = 2 =>
        /\ normOut.second.ok
        /\ normOut.second.hex = normOut.first.hex
        /\ normOut.second.val = normOut.first.val

\* C7, witness: 0X2A went in, 0x2a came out and went in again
C7_Witness ==
    /\ normOut.n = 2
    /\ normIn.text = <<"0","X","2","A">>
    /\ normOut.second.val = 42

(* C8: normalize_address takes a 0x-prefixed or bare token, always reads   *)
(* it as hexadecimal, and returns the canonical text and the value iff the *)
(* token is not blank and its value is in [0,0x7F]; otherwise it fails     *)
(* with an address-invalid error.                                          *)
C8_NormalizeContract ==
    normOut.n >= 1 =>
        /\ normOut.first.ok <=>
              (IsNumber(normIn.form) /\ 0 <= Meant(normIn) /\ Meant(normIn) <= 127)
        /\ normOut.first.ok =>
              /\ normOut.first.val = Meant(normIn)
              /\ normOut.first.hex =
                    <<"0","x", HexDigits[(Meant(normIn) \div 16) + 1],
                      HexDigits[(Meant(normIn) % 16) + 1]>>
        /\ ~normOut.first.ok => normOut.first.err = "AddressInvalid"

\* C8, witness: the bare token 21 was read as 0x21 = 33
C8_Witness ==
    /\ normOut.n >= 1
    /\ normIn.text = <<"2","1">>
    /\ normOut.first.ok /\ normOut.first.val = 33

(* C9: after every completed add, remove, rename or changeAddress the      *)
(* persisted document holds exactly the in-memory module list; a failed    *)
(* one changes neither the list nor the document.                          *)
C9_MutationsPersisted ==
    [][ last'.op \in Mutations =>
           IF last'.ok
           THEN /\ disk'.exists
                /\ JsonLoad(disk'.text).ok
                /\ JsonLoad(disk'.text).raw.modules = cfg'.modules
           ELSE cfg' = cfg /\ disk' = disk ]_vars

\* C9, witness: a rename of one of two modules has just been saved
C9_Witness ==
    /\ last.op = "rename" /\ last.ok
    /\ Len(cfg.modules) = 2
    /\ \E i \in 1..2 : cfg.modules[i].name = <<"b">>

(* C10: saving is atomic: if the process crashes at any step of save, or a *)
(* reader loads the store while a save is in progress, the store holds the *)
(* complete previous document or the complete new one, never a partial one.*)
C10_SaveAtomic ==
    /\ saving.pc # "idle" =>
          (disk = saving.old \/ disk = [exists |-> TRUE, text |-> saving.text])
    /\ disk.exists => JsonLoad(disk.text).ok
    /\ reader.ok
    /\ last.op = "restart" => last.ok

----------------------------------------------------------------------------
(* Vocabulary of the properties: registry operations *)

\* the guardrail range of a module type admits the address v
GuardrailOk(type, v) ==
    /\ type \in Digital => InDigitalRange(v)
    /\ type = Analog => InAnalogRange(v)

\* the entries of c a caller means by the id text mid: ids are compared the
\* way the registry compares them, without surrounding blanks and case
Matching(c, mid) ==
    {i \in 1..Len(c.modules) : Lower(c.modules[i].id) = Lower(Strip(mid))}

\* the list ms without its i-th entry
Without(ms, i) == [j \in 1..(Len(ms) - 1) |-> IF j < i THEN ms[j] ELSE ms[j + 1]]

(* C11: saving the registry and loading it again gives the same module     *)
(* list: same entries, same order, same id, type, address and name.        *)
C11_SaveLoadRoundTrip ==
    LET back == load_config(save_config(cfg, now))
    IN  back.ok /\ back.cfg.modules = cfg.modules

(* C12: after every load of the registry (every start of the backend) the  *)
(* configuration's bus number is the fixed constant, whatever bus number   *)
(* the persisted document holds.                                           *)
C12_BusNumberForced ==
    /\ cfg.i2c_bus_num = DEFAULT_I2C_BUS_NUM
    /\ last.op = "restart" =>
          /\ load_config(disk).ok
          /\ cfg.modules = load_config(disk).cfg.modules

\* C12, witness: the backend has just started on a document that holds bus
\* number 7 and one module
C12_Witness ==
    /\ last.op = "restart"
    /\ disk.exists
    /\ Get(JsonLoad(disk.text).raw, "i2c_bus_num", DEFAULT_I2C_BUS_NUM) = 7
    /\ Len(cfg.modules) = 1

(* C13, as claimed: changeAddress fails with a collision error, leaving    *)
(* every entry unchanged, when a different module owns the id derived from *)
(* the new address; otherwise, when the guardrail check passes, it sets    *)
(* the entry's address and id to the new values in place.                  *)
C13_Original ==
    [][ LET l == last'
            a == normalize_address(l.address)
            k == Target(cfg, l.mid)
        IN  (l.op = "change" /\ k > 0 /\ a.ok) =>
               IF OwnedByOther(cfg, k, a.val)
               THEN ~l.ok /\ l.err = "AddressCollision" /\ cfg' = cfg
               ELSE GuardrailOk(cfg.modules[k].type, a.val) =>
                       /\ l.ok
                       /\ cfg'.modules =
                             [cfg.modules EXCEPT ![k].address_hex = a.hex,
                                                 ![k].id = ExpectedId(a.val)] ]_vars

(* C13, as amended: changeAddress to a valid address fails with a          *)
(* guardrail error when the range of the module's type excludes the        *)
(* address, whoever owns it; when the guardrail check passes it fails with *)
(* a collision error if a different module owns the id derived from the    *)
(* new address; every failure leaves every entry unchanged; otherwise it   *)
(* sets the entry's address and id to the new values in place.             *)
C13_ChangeCollision ==
    [][ LET l == last'
            a == normalize_address(l.address)
            k == Target(cfg, l.mid)
        IN  (l.op = "change" /\ k > 0 /\ a.ok) =>
               IF ~GuardrailOk(cfg.modules[k].type, a.val)
               THEN ~l.ok /\ l.err = "Guardrail" /\ cfg' = cfg /\ disk' = disk
               ELSE IF OwnedByOther(cfg, k, a.val)
               THEN ~l.ok /\ l.err = "AddressCollision" /\ cfg' = cfg /\ disk' = disk
               ELSE /\ l.ok
                    /\ cfg'.modules =
                          [cfg.modules EXCEPT ![k].address_hex = a.hex,
                                              ![k].id = ExpectedId(a.val)] ]_vars

\* C13, witness: an analog module was refused the address 0x30, in its
\* range, because the other module of the registry is there
C13_Witness ==
    /\ last.op = "change"
    /\ last.err = "AddressCollision"
    /\ last.address = <<"0","x","3","0">>
    /\ \E i \in 1..Len(cfg.modules) :
          /\ cfg.modules[i].type = Analog
          /\ cfg.modules[i].id = Lower(Strip(last.mid))

(* C14: remove(id) and rename(id, newName) fail with a module-not-found    *)
(* error iff no entry has that id, and then change nothing; a successful   *)
(* remove deletes exactly the matching entry, a successful rename changes  *)
(* only that entry's name.                                                 *)
C14_RemoveRenameNotFound ==
    [][ LET l == last'
            hit == Matching(cfg, l.mid)
        IN  (l.op \in {"remove", "rename"}) =>
               /\ ~l.ok <=> hit = {}
               /\ ~l.ok => (l.err = "ModuleNotFound" /\ cfg' = cfg /\ disk' = disk)
               /\ l.ok =>
                     \E i \in hit :
                        /\ hit = {i}
                        /\ l.op = "remove" =>
                              cfg' = [cfg EXCEPT !.modules = Without(@, i)]
                        /\ l.op = "rename" =>
                              cfg' = [cfg EXCEPT !.modules[i].name = Strip(l.name)] ]_vars

\* C14, witness: the second of two modules was removed, named in upper case
\* with a blank in front
C14_Witness ==
    /\ last.op = "remove" /\ last.ok
    /\ last.mid = <<" ","I","2","C","1","-","0","X","2","1">>
    /\ Len(cfg.modules) = 1
    /\ cfg.modules[1].id # Lower(Strip(last.mid))

----------------------------------------------------------------------------
(* Vocabulary of the properties: device I/O *)

\* the configured module a read or write names
ModuleNamed(c, mid) == c.modules[find_module_index(c, mid) + 1]

\* the channels of a reading that are above the ceiling configured for them
OverCeiling(e, mid, volts) ==
    {ch \in 1..Len(volts) :
        /\ ch \in DOMAIN CeilingsOf(e, mid)
        /\ CeilingsOf(e, mid)[ch].t = "num"
        /\ volts[ch].t = "num"
        /\ volts[ch].n > CeilingsOf(e, mid)[ch].n}

\* a simulated response that cannot be parsed, or is empty
Unparseable(rec) ==
    \/ \E key \in {"gpio_a", "gpio_b"} : key \in DOMAIN rec /\ rec[key].t # "num"
    \/ /\ "raw_response" \in DOMAIN rec
       /\ \/ \E i \in 1..Len(rec["raw_response"]) : rec["raw_response"][i].t = "bad"
          \/ \A i \in 1..Len(rec["raw_response"]) : rec["raw_response"][i].t = "blank"
    \/ /\ "raw_response" \notin DOMAIN rec /\ "channels" \in DOMAIN rec
       /\ \E i \in 1..Len(rec["channels"]) : rec["channels"][i].t # "num"

(* C16: in simulation mode, writing channel k = v of a digital-output      *)
(* module and then reading the module yields channels[k] = v, the matching *)
(* port bit equal to v, and every other bit of both ports as a read        *)
(* returned it before the write.                                           *)
C16_SimWriteReadConsistency ==
    io.hist.stage = "checked" =>
        LET k == io.hist.channel
            v == io.hist.value
            before == ChannelsOf(io.hist.ports[1], io.hist.ports[2])
        IN  /\ io.op = "read" /\ io.ok
            /\ io.channels[k] = v
            /\ IF k <= 8 THEN Bit(io.ports[1], k - 1) = v
                         ELSE Bit(io.ports[2], k - 9) = v
            /\ \A j \in (1..16) \ {k} : io.channels[j] = before[j]
            /\ \A j \in (1..16) \ {k} :
                  IF j <= 8 THEN Bit(io.ports[1], j - 1) = before[j]
                            ELSE Bit(io.ports[2], j - 9) = before[j]

(* C17: reading an analog module returns exactly one alert for each        *)
(* channel whose measured value is above the ceiling configured for it,    *)
(* with the measured value in it, and no other alert; for a simulated      *)
(* reading too.                                                            *)
C17_AnalogAlerts ==
    [][ LET r == io'
            over == OverCeiling(env, r.mid, r.volts)
        IN  (r.op = "read" /\ r.ok /\ ModuleNamed(cfg, r.mid).type = Analog) =>
               /\ r.has_alerts
               /\ Len(r.alerts) = Cardinality(over)
               /\ \A ch \in over :
                     \E j \in 1..Len(r.alerts) :
                        /\ r.alerts[j].channel = ch
                        /\ r.alerts[j].measured_voltage = r.volts[ch]
               /\ \A j \in 1..Len(r.alerts) : r.alerts[j].channel \in over ]_vars

(* C18: a digital-output write with a channel outside 1..16 or a value     *)
(* that is not 0 or 1 returns a failure, makes no bus transaction and      *)
(* leaves the simulation table as it was.                                  *)
C18_InvalidWriteRejected ==
    [][ LET r == io'
        IN  (/\ r.op = "write"
             /\ ModuleNamed(cfg, r.mid).type = <<"d","o">>
             /\ (r.channel \notin 1..16 \/ r.value \notin {0, 10})) =>
               /\ ~r.ok /\ ~r.raised
               /\ ~r.bus
               /\ dev' = dev
               /\ env'.regs = env.regs ]_vars

(* C19: a hardware-layer failure during a read or write of a module        *)
(* (driver missing, transaction error, empty or unparseable device or      *)
(* simulated response) comes back as a result with ok = false and an error *)
(* text; the call never raises.                                            *)
C19_FailuresReturned ==
    [][ LET r == io'
            m == ModuleNamed(cfg, r.mid)
        IN  (r.op \in {"read", "write"}) =>
               /\ ~r.raised
               /\ ~r.ok => r.err # ""
               /\ (r.op = "read" /\ DevFor(dev, m).found
                      /\ m.type \in Digital \cup {Analog}
                      /\ Unparseable(DevFor(dev, m).rec)) => ~r.ok ]_vars

(* C20: while simulation mode is on, every read and write of a configured  *)
(* digital or analog module is answered from the simulation table, and no  *)
(* transaction on the real bus is attempted.                               *)
C20_SimulationOnly ==
    [][ LET r == io'
        IN  (/\ dev.mode
             /\ r.op \in {"read", "write"}
             /\ ModuleNamed(cfg, r.mid).type \in Digital \cup {Analog}) =>
               /\ ~r.bus
               /\ r.err # "smbus2 not installed" ]_vars

(* C29: a successful changeAddress changes only the address and id of the  *)
(* target entry: its type, name and position, the number of entries and    *)
(* every field of every other entry are unchanged; changing a module to    *)
(* the address it already has succeeds and leaves the registry as it was.  *)
C29_ChangeAddressFrame ==
    [][ LET l == last'
            a == normalize_address(l.address)
            k == Target(cfg, l.mid)
        IN  (l.op = "change" /\ k > 0) =>
               /\ l.ok =>
                     /\ Len(cfg'.modules) = Len(cfg.modules)
                     /\ cfg'.modules[k].type = cfg.modules[k].type
                     /\ cfg'.modules[k].name = cfg.modules[k].name
                     /\ \A j \in 1..Len(cfg.modules) :
                           j # k => cfg'.modules[j] = cfg.modules[j]
                     /\ [cfg' EXCEPT !.modules = <<>>] = [cfg EXCEPT !.modules = <<>>]
               /\ (a.ok /\ k \in EntriesAt(cfg, a.val)) => (l.ok /\ cfg' = cfg) ]_vars

----------------------------------------------------------------------------
(* Vocabulary of the properties: the simulation table *)

\* a record looks like the simulation of a module of this type
Compatible(rec, type) ==
    IF type = Analog
    THEN "channels" \in DOMAIN rec \/ "raw_response" \in DOMAIN rec
    ELSE type \in Digital /\ ("gpio_a" \in DOMAIN rec \/ "gpio_b" \in DOMAIN rec)

\* the positions of the table that hold a record under key k
KeyedAt(data, k) == {i \in 1..Len(data) : data[i].k = k}

\* the record of the table that stands for module m: the one at its exact
\* address, else the first compatible one; 0 when there is none
RecordFor(data, m) ==
    LET exact == KeyedAt(data, Lower(m.address_hex))
        compat == {i \in 1..Len(data) : Compatible(data[i].v, m.type)}
    IN  IF exact # {} THEN SetMin(exact)
        ELSE IF compat # {} THEN SetMin(compat) ELSE 0

\* the two ports of a digital record whose values are integers
PortsOf(rec) ==
    << IF "gpio_a" \in DOMAIN rec THEN rec["gpio_a"].n ELSE 0,
       IF "gpio_b" \in DOMAIN rec THEN rec["gpio_b"].n ELSE 0 >>

WellFormedPorts(rec) ==
    \A key \in {"gpio_a", "gpio_b"} : key \in DOMAIN rec => rec[key].t = "num"

\* ports after channel k was set to v
PortsWith(ports, k, v) ==
    IF k <= 8
    THEN << IF v = 1 THEN SetBit(ports[1], k - 1) ELSE ClearBit(ports[1], k - 1),
            ports[2] >>
    ELSE << ports[1],
            IF v = 1 THEN SetBit(ports[2], k - 9) ELSE ClearBit(ports[2], k - 9) >>

(* C26: in simulation mode a read or write for a module with no record at  *)
(* its exact address uses the first record of the table that is            *)
(* structurally compatible with the module's type; when an exact record    *)
(* exists it is the one used.  (Stated for digital-output modules: a read  *)
(* returns the ports of that record, a write returns them with the one bit *)
(* changed.)                                                               *)
C26_FallbackRecord ==
    [][ LET r == io'
            m == ModuleNamed(cfg, r.mid)
            i == RecordFor(dev.data, m)
        IN  (/\ dev.mode
             /\ r.op \in {"read", "write"}
             /\ m.type = <<"d","o">>
             /\ i > 0
             /\ WellFormedPorts(dev.data[i].v)
             /\ r.op = "write" => (r.channel \in 1..16 /\ r.value \in {0, 10})) =>
               /\ r.ok
               /\ r.op = "read" => r.ports = PortsOf(dev.data[i].v)
               /\ r.op = "write" =>
                     r.ports = PortsWith(PortsOf(dev.data[i].v),
                                         r.channel, r.value \div 10) ]_vars

\* the key-value pairs of a JSON object
PairsOf(d) == {<<d[i].k, d[i].v>> : i \in 1..Len(d)}

OnlyKeyChanged(before, after, X) ==
    /\ \A i \in 1..Len(before) :
          before[i].k # X => \E j \in 1..Len(after) : after[j] = before[i]
    /\ \A j \in 1..Len(after) :
          after[j].k # X => \E i \in 1..Len(before) : before[i] = after[j]
    /\ Cardinality(KeyedAt(after, X)) <= 1

(* C30: a simulated write for a module at address X creates or replaces    *)
(* only the simulation record keyed by X: every record under another key   *)
(* (a record that reads for this module fall back to included) and the     *)
(* module registry are unchanged; a write to a module whose type is        *)
(* neither digital-output nor analog returns a failure and leaves the      *)
(* simulation table as it was.                                             *)
C30_SimWriteFrame ==
    [][ (dev.mode /\ io'.op = "write") =>
           /\ cfg' = cfg /\ disk' = disk
           /\ \A m \in {ModuleNamed(cfg, io'.mid)} :
                 /\ \A X \in {Lower(m.address_hex)} :
                       OnlyKeyChanged(dev.data, dev'.data, X)
                 /\ m.type \notin {<<"d","o">>, Analog} =>
                       (~io'.ok /\ dev' = dev) ]_vars

\* C30, witness: the digital-output module at 0x21 was written while the
\* table held only the record at 0x22 that its reads fell back to, and that
\* record is still there, next to the new one
C30_Witness ==
    /\ dev.mode
    /\ io.op = "write" /\ io.ok /\ io.mid = module_id(A21)
    /\ <<A22, [gpio_a |-> Num(255), gpio_b |-> Num(2)]>> \in PairsOf(dev.data)
    /\ KeyedAt(dev.data, A21) # {}

\* C30, witness: a write to a digital-input module was refused in simulation
\* mode
C30_WitnessUnsupported ==
    /\ dev.mode
    /\ io.op = "write" /\ ~io.ok /\ io.mid = module_id(A22)
    /\ io.err = "write not supported for this module type"

\* what GET /api/hat_status answers in simulation mode, the bus at rest
HatStatus(dv, e) ==
    read_hat_status(dv, e, 0, MCP23017_MIN, [fail |-> "none", tokens |-> <<>>])

(* C22: in simulation mode the backplane status that                       *)
(* readBackplaneStatus(bus, address) returns is independent of the module  *)
(* registry: no add, remove, rename, changeAddress or writeModule call on  *)
(* a configured module changes the status it returns.                      *)
C22_HatStatusIndependent ==
    [][ (/\ dev.mode
         /\ HasKey(dev.data, A20)
         /\ io'.op = "write" \/ cfg' # cfg) =>
            HatStatus(dev', env') = HatStatus(dev, env) ]_vars

----------------------------------------------------------------------------
(* Vocabulary of the properties: the transactions of a write on the bus *)

\* the place of a transaction in the sequence of a write
Rank(op) ==
    CASE op = "olat_read" -> 1
      [] op = "gpio_fallback" -> 2
      [] op = "iodir_read" -> 3
      [] op = "iodir_write" -> 4
      [] op = "olat_write" -> 5
      [] op = "gpio_a" -> 6
      [] op = "gpio_b" -> 7

\* byte with bit set to value and every other bit as it is
WithBit(byte, bit, value) ==
    byte - Bit(byte, bit) * Pow2(bit) + value * Pow2(bit)

\* the positions of the trace where op was attempted
Steps(tr, op) == {i \in 1..Len(tr) : tr[i].op = op}

(* C21: bus transactions are serialized: when two writeModule calls on the *)
(* same digital-output device run concurrently, their read-latch /         *)
(* write-latch sequences do not interleave, so after both completed the    *)
(* output latch reflects both writes (no lost update).                     *)
C21_NoLostUpdate ==
    \A t, u \in Threads :
        (/\ t # u
         /\ hw.th # <<>>
         /\ hw.th[t].pc = "done" /\ hw.th[t].ok
         /\ hw.th[u].pc = "done" /\ hw.th[u].ok
         /\ hw.th[t].channel # hw.th[u].channel) =>
            Bit(hw.olat[hw.th[t].port], hw.th[t].bit) = hw.th[t].value

(* C28: a real-hardware digital-output write performs its bus steps in     *)
(* this order: read the output latch of the target port (the GPIO register *)
(* if that read fails), best-effort adjustment of the direction register,  *)
(* write of the new byte (the byte read, with only the target bit changed) *)
(* to the output latch, read of GPIO-A, read of GPIO-B.  A failed read or  *)
(* write of the direction register never aborts the write, and the latch   *)
(* write always comes after a successful read of the current byte.         *)
C28_WriteStepOrder ==
    \A t \in DOMAIN hw.th :
        LET th == hw.th[t]
            tr == th.trace
        IN  /\ \A i, j \in 1..Len(tr) : i < j => Rank(tr[i].op) < Rank(tr[j].op)
            /\ tr # <<>> => tr[1].op = "olat_read"
            /\ \A j \in Steps(tr, "gpio_fallback") :
                  tr[j - 1].op = "olat_read" /\ ~tr[j - 1].ok
            /\ \A j \in Steps(tr, "iodir_read") :
                  /\ tr[j - 1].op \in {"olat_read", "gpio_fallback"}
                  /\ tr[j - 1].ok
            /\ \A j \in Steps(tr, "iodir_write") :
                  /\ tr[j - 1].op = "iodir_read" /\ tr[j - 1].ok
                  /\ Bit(tr[j - 1].byte, th.bit) = 1
                  /\ tr[j].byte = WithBit(tr[j - 1].byte, th.bit, 0)
            /\ \A j \in Steps(tr, "olat_write") :
                  /\ Steps(tr, "iodir_read") # {}
                  /\ \E i \in 1..(j - 1) :
                        /\ tr[i].op \in {"olat_read", "gpio_fallback"}
                        /\ tr[i].ok
                        /\ tr[j].byte = WithBit(tr[i].byte, th.bit, th.value)
            /\ \A j \in Steps(tr, "gpio_a") :
                  tr[j - 1].op = "olat_write" /\ tr[j - 1].ok
            /\ \A j \in Steps(tr, "gpio_b") :
                  tr[j - 1].op = "gpio_a" /\ tr[j - 1].ok
            /\ \A j \in Steps(tr, "iodir_read") \cup Steps(tr, "iodir_write") :
                  ~tr[j].ok =>
                     /\ ~(th.pc = "done" /\ j = Len(tr))
                     /\ j < Len(tr) => tr[j + 1].op = "olat_write"
            /\ th.pc = "done" =>
                  /\ th.ok <=> (tr[Len(tr)].op = "gpio_b" /\ tr[Len(tr)].ok)
                  /\ ~th.ok <=> ~tr[Len(tr)].ok

\* C28, witness: a write came back ok after its latch read failed and the
\* GPIO register was read instead, and after the write of the direction
\* register failed too
C28_Witness ==
    \E t \in DOMAIN hw.th :
        LET tr == hw.th[t].trace
        IN  /\ hw.th[t].pc = "done" /\ hw.th[t].ok
            /\ Len(tr) = 7
            /\ ~tr[1].ok /\ tr[2].op = "gpio_fallback"
            /\ tr[4].op = "iodir_write" /\ ~tr[4].ok
            /\ tr[5].op = "olat_write" /\ tr[7].op = "gpio_b"

----------------------------------------------------------------------------
(* Vocabulary of the properties: the findings of the validator *)

\* the positions of the known types whose pinmap file is there and is YAML
Loadable(files) == {i \in 1..Len(files) : files[i].exists /\ files[i].parses}

\* the positions in errors of the findings of these kinds for this type
FindingsOf(errors, kinds, type) ==
    {j \in 1..Len(errors) : errors[j].kind \in kinds /\ errors[j].type = type}

\* the per-type findings the three contract checks call for
ExpectedFindings(type, f) ==
    LET net(p) == IF p \in DOMAIN f.pins THEN f.pins[p] ELSE <<>>
    IN  {Finding("PIN22", type, 22) : x \in {1} \cap
             (IF Upper(net(22)) \notin {<<>>, NC} THEN {1} ELSE {})}
        \cup {Finding("BLANK", type, p) : p \in {q \in 1..30 : net(q) = <<>>}}
        \cup {Finding("RESERVED", type, p) :
                 p \in {q \in 21..30 : Upper(net(q)) # reserved_expected[q]}}

\* the loadable maps do not all have the same net on pin p, letter case aside
Disagree(files, p) ==
    \E i, j \in Loadable(files) :
        LET ni == IF p \in DOMAIN files[i].pins THEN files[i].pins[p] ELSE <<>>
            nj == IF p \in DOMAIN files[j].pins THEN files[j].pins[p] ELSE <<>>
        IN  Upper(ni) # Upper(nj)

(* C23: the validator never aborts on one module type: for every known     *)
(* type whose wiring map is absent it records one [MISSING] error and goes *)
(* on to the next type, so every known type is visited in one run, and the *)
(* result is success iff the accumulated error list is empty.              *)
C23_ValidatorNeverAborts ==
    pm.ran =>
        /\ ~pm.raised
        /\ \A i \in 1..Len(KnownModules) :
              /\ ~pm.files[i].exists =>
                    Cardinality(FindingsOf(pm.errors, {"MISSING"}, KnownModules[i])) = 1
              /\ pm.files[i].exists =>
                    /\ FindingsOf(pm.errors, {"MISSING"}, KnownModules[i]) = {}
                    /\ \E k \in 1..Len(pm.loaded) : pm.loaded[k] = i
        /\ pm.ok <=> pm.errors = <<>>

(* C24: for every loaded wiring map the validator records an error when    *)
(* pin 22's net is neither empty nor NC, an error for every pin in 1..30   *)
(* whose net is blank, and an error for every pin in 21..30 whose net      *)
(* differs, case-insensitively, from the reserved table; it records no     *)
(* per-type error for a map that satisfies all three checks.               *)
C24_PerTypeChecks ==
    (pm.ran /\ ~pm.raised) =>
        \A k \in 1..Len(pm.loaded) :
            LET type == KnownModules[pm.loaded[k]]
                want == ExpectedFindings(type, pm.files[pm.loaded[k]])
                got == FindingsOf(pm.errors, {"PIN22", "BLANK", "RESERVED"}, type)
            IN  /\ {pm.errors[j] : j \in got} = want
                /\ Cardinality(got) = Cardinality(want)
                /\ want = {} =>
                      FindingsOf(pm.errors,
                                 {"MISSING", "NOREF", "PIN22", "BLANK", "RESERVED"},
                                 type) = {}

(* C25: the cross-module pass records exactly one error for each pin in    *)
(* 21..30 whose net is not the same, case-insensitively, in all loaded     *)
(* maps, and none for a pin on which all loaded maps agree; two module     *)
(* types that disagree on pin 25 only give exactly one cross-module error, *)
(* naming pin 25.                                                          *)
C25_CrossModulePass ==
    (pm.ran /\ ~pm.raised) =>
        /\ \A p \in 21..30 :
              Cardinality({j \in 1..Len(pm.errors) :
                              pm.errors[j].kind = "CROSS" /\ pm.errors[j].pin = p})
                 = IF Disagree(pm.files, p) THEN 1 ELSE 0
        /\ \A j \in 1..Len(pm.errors) :
              pm.errors[j].kind = "CROSS" => pm.errors[j].pin \in 21..30

\* C25, witness: two maps were loaded, one with SPARE on pin 25 and one with
\* RESERVED_25, the third type has no map; the run recorded one cross-module
\* error, for pin 25
C25_Witness ==
    /\ pm.ran /\ ~pm.raised
    /\ Len(pm.loaded) = 2
    /\ \A p \in 21..30 : Disagree(pm.files, p) <=> p = 25
    /\ \E j \in 1..Len(pm.errors) :
          /\ pm.errors[j] = Finding("CROSS", <<>>, 25)
          /\ \A h \in 1..Len(pm.errors) : pm.errors[h].kind = "CROSS" => h = j

====
